---- MODULE Spec2Model ----
(***************************************************************************)
(* A model of bareunpy, the Python client of the bareun NLP service:       *)
(*   - CustomDict and CustomDictionaryServiceClient (_custom_dict.py,      *)
(*     _custom_dict_client.py): the local staging of a custom dictionary   *)
(*     and its synchronisation with the remote store.                      *)
(*                                                                         *)
(* Representation of Python values:                                        *)
(*   - a str the code inspects character by character (a file, a line, a   *)
(*     word) is a sequence of one-character strings;                       *)
(*   - a str the code only compares, measures or concatenates (a name, a   *)
(*     key) is a TLA+ string;                                              *)
(*   - a set object is a heap cell: an attribute holds a reference, and    *)
(*     heap[ref] is the set's present content, so that two holders of the  *)
(*     same reference see each other's in-place mutations.                 *)
(***************************************************************************)
EXTENDS Integers, Sequences, FiniteSets, TLC

VARIABLES
    cd,       \* the CustomDict object: its domain and its five set attributes (references)
    heap,     \* the set objects: reference -> content
    origin,   \* history: what made the set each attribute holds
    remote,   \* the remote store: dictionary name -> CustomDictionary message, or Absent
    dlast,    \* the last synchronising call: the requests it sent and its outcome
    nops,     \* the number of calls the caller has made
    view,     \* the Tagged or Tokenized object under study, or NoView
    vret,     \* the outcome of the last accessor call on view
    facade,   \* the Tagger or Tokenizer object under study, or NoFacade
    flast,    \* the last call on a facade class or object: what it did and its outcome
    file,     \* the file last given to read_dic_file (its text), or NoFile
    parsed,   \* the set read_dic_file returned for it
    uarg,     \* the Morpheme or Segment last given to _pos or _segment, or NoUnit
    uret,     \* that call: its flags and the value returned
    taggers,  \* two Tagger objects side by side (each one, or NoFacade)
    lists,    \* the list objects they may hold: reference -> content
    plast,    \* the last call on one of the two: who, what it did and its outcome
    snaps,    \* two CustomDict objects side by side: their set attributes (references)
    sheap,    \* the set objects they and the caller hold: reference -> content
    given,    \* history: the caller's set each attribute was last given, if any
    slast     \* the last call on one of the two, or by the caller on its set

dictVars == <<cd, heap, origin, remote, dlast, nops>>
viewVars == <<view, vret>>
facadeVars == <<facade, flast>>
fileVars == <<file, parsed>>
unitVars == <<uarg, uret>>
pairVars == <<taggers, lists, plast>>
shareVars == <<snaps, sheap, given, slast>>
vars == <<cd, heap, origin, remote, dlast, nops, view, vret, facade, flast,
          file, parsed, uarg, uret, taggers, lists, plast,
          snaps, sheap, given, slast>>

\* The longest sequence of calls on one CustomDict that is explored.
MaxOps == 7

-----------------------------------------------------------------------------
(* Strings read character by character.                                    *)

Whitespace == {" ", "\n", "\t"}

\* str.strip(): the string without its leading and trailing whitespace.
RECURSIVE lstrip(_)
lstrip(w) ==
    IF w # <<>> /\ Head(w) \in Whitespace THEN lstrip(Tail(w)) ELSE w

RECURSIVE rstrip(_)
rstrip(w) ==
    IF w # <<>> /\ w[Len(w)] \in Whitespace
    THEN rstrip(SubSeq(w, 1, Len(w) - 1))
    ELSE w

strip(w) == rstrip(lstrip(w))

\* file.readline(): the text up to and including the next newline, or the
\* rest of the file when there is none; '' at end of file.
RECURSIVE LineEnd(_, _)
LineEnd(text, i) ==
    IF i > Len(text) THEN Len(text)
    ELSE IF text[i] = "\n" THEN i
    ELSE LineEnd(text, i + 1)

readline(text) == SubSeq(text, 1, LineEnd(text, 1))

AfterLine(text) == SubSeq(text, LineEnd(text, 1) + 1, Len(text))

\* A variant of the loop without the len(w2) > 0 test, against which the
\* exclusion of blank lines is checked.
RECURSIVE read_dic_loop_keep_blank(_, _)
read_dic_loop_keep_blank(text, dict_set) ==
    LET w == readline(text) IN
    IF w = <<>> THEN dict_set
    ELSE IF w[1] # "#"
         THEN read_dic_loop_keep_blank(AfterLine(text), dict_set \cup {strip(w)})
         ELSE read_dic_loop_keep_blank(AfterLine(text), dict_set)

\* The loop of read_dic_file over the unread text of the file.
RECURSIVE read_dic_loop(_, _)
read_dic_loop(text, dict_set) ==
    LET w == readline(text) IN
    IF w = <<>> THEN dict_set
    ELSE IF w[1] # "#"
         THEN LET w2 == strip(w) IN
              IF Len(w2) > 0
              THEN read_dic_loop(AfterLine(text), dict_set \cup {w2})
              ELSE read_dic_loop(AfterLine(text), dict_set)
         ELSE read_dic_loop(AfterLine(text), dict_set)

read_dic_file(text) == read_dic_loop(text, {})

-----------------------------------------------------------------------------
(* The files a caller may name, and the sets a caller may pass.            *)

\* "#c\n\n a \na\n": a comment line, a blank line, a padded word and the
\* same word again.
WordsTxt == <<"#", "c", "\n", "\n", " ", "a", " ", "\n", "a", "\n">>

FileSystem == [words_txt |-> WordsTxt]

\* The names a caller may pass; missing_txt names no file.
FileNames == {"words_txt", "missing_txt"}

FileExists(fn) == fn \in DOMAIN FileSystem

\* The set object the caller owns and may hand to copy_*_set.
CallerRefs == {"s1"}

CallerInit == [s1 |-> {<<>>}]

-----------------------------------------------------------------------------
(* Protobuf messages of the custom dictionary service.                     *)

\* A variant of build_dict_set that names the set and drops its words,
\* against which the round trip is checked.
build_dict_set_no_items(domain, name, dict_set) ==
    [name  |-> domain \o "-" \o name,
     type  |-> "WORD_LIST",
     items |-> [v \in {} |-> 1]]

\* common.DictSet(): the default message.
EmptyDictSet == [name |-> "", type |-> "UNSPECIFIED", items |-> [v \in {} |-> 1]]

\* build_dict_set: a DictSet whose items map holds each word with value 1.
build_dict_set(domain, name, dict_set) ==
    [name  |-> domain \o "-" \o name,
     type  |-> "WORD_LIST",
     items |-> [v \in dict_set |-> 1]]

\* pb_map_to_set: the keys of the DictSet's items map.
pb_map_to_set(ds) == DOMAIN ds.items

\* pb.CustomDictionary(): the default message.
EmptyCustomDictionary ==
    [domain_name  |-> "",
     np_set       |-> EmptyDictSet,
     cp_set       |-> EmptyDictSet,
     cp_caret_set |-> EmptyDictSet,
     vv_set       |-> EmptyDictSet,
     va_set       |-> EmptyDictSet]

\* A variant of the update request that leaves vv_set and va_set unset,
\* against which the wholesale update is checked.
UpdateRequest_three(domain, np, cp, cp_caret, vv, va) ==
    [rpc         |-> "UpdateCustomDictionary",
     domain_name |-> domain,
     dict        |-> [domain_name  |-> domain,
                      np_set       |-> build_dict_set(domain, "np-set", np),
                      cp_set       |-> build_dict_set(domain, "cp-set", cp),
                      vv_set       |-> EmptyDictSet,
                      va_set       |-> EmptyDictSet,
                      cp_caret_set |-> build_dict_set(domain, "cp-caret-set", cp_caret)]]

\* The request CustomDictionaryServiceClient.update builds.
UpdateRequest(domain, np, cp, cp_caret, vv, va) ==
    [rpc         |-> "UpdateCustomDictionary",
     domain_name |-> domain,
     dict        |-> [domain_name  |-> domain,
                      np_set       |-> build_dict_set(domain, "np-set", np),
                      cp_set       |-> build_dict_set(domain, "cp-set", cp),
                      vv_set       |-> build_dict_set(domain, "vv-set", vv),
                      va_set       |-> build_dict_set(domain, "va-set", va),
                      cp_caret_set |-> build_dict_set(domain, "cp-caret-set", cp_caret)]]

\* The request CustomDictionaryServiceClient.get builds.
GetRequest(domain) == [rpc |-> "GetCustomDictionary", domain_name |-> domain]

\* CustomDictionaryServiceClient.__init__
CustomDictionaryServiceClient(channel, apikey) ==
    [channel  |-> channel,
     apikey   |-> apikey,
     metadata |-> <<[key |-> "api-key", value |-> apikey]>>,
     stub     |-> "CustomDictionaryServiceStub"]

\* stub.<Method>.with_call(request=req, metadata=self.metadata): the request
\* as it is sent.
WithMetadata(req, metadata) ==
    [x \in DOMAIN req \cup {"metadata"} |->
       IF x = "metadata" THEN metadata ELSE req[x]]

\* The request CustomDictionaryServiceClient.remove builds.
RemoveRequest(domains) ==
    [rpc |-> "RemoveCustomDictionaries", domain_names |-> domains, all |-> FALSE]

-----------------------------------------------------------------------------
(* The CustomDict object.                                                  *)

FieldNames == {"np_set", "cp_set", "cp_caret_set", "vv_set", "va_set"}

DomainNames == {"law", "med"}

Absent == [rpc |-> "none"]

Idle == [op |-> "none"]

NoView == [kind |-> "none"]

NoCall == [op |-> "none"]

NoFile == [py |-> "no file"]

NoUnit == [kind |-> "none"]

NoFacade == [kind |-> "none"]

\* The content of the set an attribute refers to.
Val(f) == heap[cd[f]]

\* One more call of the caller's session on the CustomDict; the other
\* objects are not involved.
Call == nops < MaxOps /\ nops' = nops + 1 /\ UNCHANGED <<viewVars, facadeVars, fileVars, unitVars, pairVars, shareVars>>

\* CustomDict.__init__: five new empty sets. The store already holds
\* another dictionary, "med". No view and no facade has been built yet.
\* The Tagger objects of the side-by-side study, and the list objects:
\* "default" is the one list the def statement of Tagger.__init__ made for
\* custom_dicts=[], "caller" a list of the caller's, and OwnList[i] the
\* list a call on Tagger i was last given as a literal or made with [].
Instances == {1, 2}

OwnList == <<"own1", "own2">>

ListRefs == {"default", "caller"} \cup {OwnList[i] : i \in Instances}

\* CustomDict.__init__ (domain given): the stub and five new empty sets,
\* each attribute holding the reference of its own set.
CustomDict(apikey, domain, channel) ==
    [domain       |-> domain,
     np_set       |-> "np_set",
     cp_set       |-> "cp_set",
     cp_caret_set |-> "cp_caret_set",
     vv_set       |-> "vv_set",
     va_set       |-> "va_set",
     stub         |-> CustomDictionaryServiceClient(channel, apikey)]

\* The set objects of the side-by-side study of two CustomDict objects:
\* <<k, f>> is the set object attribute f of CustomDict k was made with,
\* CallerSet the one set object of the caller's; NoSet stands for none.
CallerSet == <<0, "s">>

NoSet == <<0, "none">>

Init ==
    /\ cd = CustomDict("koba-KEY", "law", "channel")
    /\ heap = [r \in FieldNames \cup CallerRefs |->
                 IF r \in CallerRefs THEN CallerInit[r] ELSE {}]
    /\ origin = [f \in FieldNames |-> "new"]
    /\ remote = [d \in DomainNames |->
                   IF d = "med"
                   THEN UpdateRequest("med", {<<"m">>}, {}, {}, {}, {}).dict
                   ELSE Absent]
    /\ dlast = Idle
    /\ nops = 0
    /\ view = NoView
    /\ vret = NoCall
    /\ facade = NoFacade
    /\ flast = NoCall
    /\ file = NoFile
    /\ parsed = {}
    /\ taggers = [i \in Instances |-> NoFacade]
    /\ lists = [r \in ListRefs |-> IF r = "caller" THEN <<"law">> ELSE <<>>]
    /\ plast = NoCall
    /\ snaps = [k \in Instances |->
                 [f \in FieldNames |-> <<k, f>>] @@ [domain |-> <<"law", "med">>[k]]]
    /\ sheap = [r \in (Instances \X FieldNames) \cup {CallerSet} |->
                 IF r = CallerSet THEN {<<"a">>} ELSE {}]
    /\ given = [k \in Instances |-> [f \in FieldNames |-> NoSet]]
    /\ slast = NoCall
    /\ uarg = NoUnit
    /\ uret = NoCall

\* self.<f> = <a set made by this call>: the attribute gets a set of its own.
AssignNew(f, content, from) ==
    /\ cd' = [cd EXCEPT ![f] = f]
    /\ heap' = [heap EXCEPT ![f] = content]
    /\ origin' = [origin EXCEPT ![f] = from]

\* read_*_set_from_file: self.<f> = read_dic_file(fn); open() fails on a
\* missing file and the attribute keeps its set.
ReadSetFromFile(f, fn) ==
    /\ Call
    /\ IF FileExists(fn)
       THEN AssignNew(f, read_dic_file(FileSystem[fn]), fn)
       ELSE UNCHANGED <<cd, heap, origin>>
    /\ dlast' = Idle
    /\ UNCHANGED remote

read_np_set_from_file(fn) == ReadSetFromFile("np_set", fn)
read_cp_set_from_file(fn) == ReadSetFromFile("cp_set", fn)
read_cp_caret_set_from_file(fn) == ReadSetFromFile("cp_caret_set", fn)
read_vv_set_from_file(fn) == ReadSetFromFile("vv_set", fn)
read_va_set_from_file(fn) == ReadSetFromFile("va_set", fn)

\* copy_*_set: self.<f> = dict_set, the caller's set object itself.
CopySet(f, dict_set) ==
    /\ Call
    /\ cd' = [cd EXCEPT ![f] = dict_set]
    /\ heap' = [heap EXCEPT ![f] = {}]
    /\ origin' = [origin EXCEPT ![f] = "caller"]
    /\ dlast' = Idle
    /\ UNCHANGED remote

copy_np_set(dict_set) == CopySet("np_set", dict_set)
copy_cp_set(dict_set) == CopySet("cp_set", dict_set)
copy_cp_caret_set(dict_set) == CopySet("cp_caret_set", dict_set)
copy_vv_set(dict_set) == CopySet("vv_set", dict_set)
copy_va_set(dict_set) == CopySet("va_set", dict_set)

\* The outcomes of one remote call: the server does what is asked, the
\* server answers without doing it, or the call raises grpc.RpcError.
Replies == {"ok", "refused", "rpc_error"}

\* CustomDictionaryServiceClient.update, with the server's part: a server
\* that accepts the request stores the dictionary under the request's name
\* and confirms that name.
update(reply) ==
    LET req == UpdateRequest(cd.domain, Val("np_set"), Val("cp_set"),
                             Val("cp_caret_set"), Val("vv_set"), Val("va_set"))
        res == [updated_domain_name |->
                  IF reply = "ok" THEN req.domain_name ELSE ""]
    IN  /\ Call
        /\ remote' = IF reply = "ok"
                     THEN [remote EXCEPT ![req.domain_name] = req.dict]
                     ELSE remote
        /\ dlast' = IF reply = "rpc_error"
                    THEN [op |-> "update", sent |-> <<WithMetadata(req, cd.stub.metadata)>>, raised |-> TRUE,
                          exc |-> "RpcError"]
                    ELSE [op |-> "update", sent |-> <<WithMetadata(req, cd.stub.metadata)>>, raised |-> FALSE,
                          res |-> res,
                          value |-> (res.updated_domain_name = cd.domain)]
        /\ UNCHANGED <<cd, heap, origin>>

\* A variant of load that takes all five sets from the server's answer,
\* against which the frame of load is checked.
load_all_five(reply) ==
    LET req == GetRequest(cd.domain)
        d == IF remote[req.domain_name] = Absent
             THEN EmptyCustomDictionary
             ELSE remote[req.domain_name]
    IN  /\ Call
        /\ IF reply = "ok"
           THEN /\ cd' = [f \in DOMAIN cd |-> IF f \in FieldNames THEN f ELSE cd[f]]
                /\ heap' = [r \in DOMAIN heap |->
                              IF r \in FieldNames THEN pb_map_to_set(d[r]) ELSE heap[r]]
                /\ origin' = [f \in FieldNames |-> "server"]
           ELSE UNCHANGED <<cd, heap, origin>>
        /\ dlast' = IF reply = "ok"
                    THEN [op |-> "load", sent |-> <<WithMetadata(req, cd.stub.metadata)>>, raised |-> FALSE,
                          fetched |-> TRUE, res |-> d]
                    ELSE [op |-> "load", sent |-> <<WithMetadata(req, cd.stub.metadata)>>, raised |-> FALSE,
                          fetched |-> FALSE]
        /\ UNCHANGED remote

\* A variant of load without the except clause, in which the RpcError
\* that get() raises again reaches the caller, against which the
\* swallowing of the failure is checked.
load_reraise(reply) ==
    LET req == GetRequest(cd.domain)
        d == IF remote[req.domain_name] = Absent
             THEN EmptyCustomDictionary
             ELSE remote[req.domain_name]
    IN  /\ Call
        /\ IF reply = "ok"
           THEN /\ cd' = [cd EXCEPT !["np_set"] = "np_set",
                                    !["cp_caret_set"] = "cp_caret_set",
                                    !["cp_set"] = "cp_set"]
                /\ heap' = [heap EXCEPT !["np_set"] = pb_map_to_set(d.np_set),
                                        !["cp_caret_set"] = pb_map_to_set(d.cp_caret_set),
                                        !["cp_set"] = pb_map_to_set(d.cp_set)]
                /\ origin' = [origin EXCEPT !["np_set"] = "server",
                                            !["cp_caret_set"] = "server",
                                            !["cp_set"] = "server"]
           ELSE UNCHANGED <<cd, heap, origin>>
        /\ dlast' = IF reply = "ok"
                    THEN [op |-> "load", sent |-> <<WithMetadata(req, cd.stub.metadata)>>, raised |-> FALSE,
                          fetched |-> TRUE, res |-> d]
                    ELSE [op |-> "load", sent |-> <<WithMetadata(req, cd.stub.metadata)>>, raised |-> TRUE,
                          fetched |-> FALSE, exc |-> "RpcError"]
        /\ UNCHANGED remote

\* CustomDict.load, with CustomDictionaryServiceClient.get and the server's
\* part: the stored dictionary, or the default message for an unknown name.
\* load() swallows every exception.
load(reply) ==
    LET req == GetRequest(cd.domain)
        d == IF remote[req.domain_name] = Absent
             THEN EmptyCustomDictionary
             ELSE remote[req.domain_name]
    IN  /\ Call
        /\ IF reply = "ok"
           THEN /\ cd' = [cd EXCEPT !["np_set"] = "np_set",
                                    !["cp_caret_set"] = "cp_caret_set",
                                    !["cp_set"] = "cp_set"]
                /\ heap' = [heap EXCEPT !["np_set"] = pb_map_to_set(d.np_set),
                                        !["cp_caret_set"] = pb_map_to_set(d.cp_caret_set),
                                        !["cp_set"] = pb_map_to_set(d.cp_set)]
                /\ origin' = [origin EXCEPT !["np_set"] = "server",
                                            !["cp_caret_set"] = "server",
                                            !["cp_set"] = "server"]
           ELSE UNCHANGED <<cd, heap, origin>>
        /\ dlast' = IF reply = "ok"
                    THEN [op |-> "load", sent |-> <<WithMetadata(req, cd.stub.metadata)>>, raised |-> FALSE,
                          fetched |-> TRUE, res |-> d]
                    ELSE [op |-> "load", sent |-> <<WithMetadata(req, cd.stub.metadata)>>, raised |-> FALSE,
                          fetched |-> FALSE]
        /\ UNCHANGED remote

\* A variant of clear that empties all five local sets, against which
\* the keeping of the verb and adjective sets is checked.
clear_all_five(reply) ==
    LET req == RemoveRequest(<<cd.domain>>)
        names == {req.domain_names[i] : i \in 1..Len(req.domain_names)}
        deleted == {d \in names : d \in DomainNames /\ remote[d] # Absent}
    IN  /\ Call
        /\ heap' = [r \in DOMAIN heap |->
                      IF r \in {cd[f] : f \in FieldNames} THEN {} ELSE heap[r]]
        /\ remote' = IF reply = "ok"
                     THEN [d \in DomainNames |->
                             IF d \in deleted THEN Absent ELSE remote[d]]
                     ELSE remote
        /\ dlast' = IF reply = "ok"
                    THEN [op |-> "clear", sent |-> <<WithMetadata(req, cd.stub.metadata)>>, raised |-> FALSE,
                          res |-> [deleted_domain_names |-> deleted],
                          value |-> deleted]
                    ELSE [op |-> "clear", sent |-> <<WithMetadata(req, cd.stub.metadata)>>, raised |-> TRUE,
                          exc |-> "RpcError"]
        /\ UNCHANGED <<cd, origin>>

\* A variant of clear that empties the local sets only once the server
\* has answered, against which the order of the two is checked.
clear_after_remove(reply) ==
    LET req == RemoveRequest(<<cd.domain>>)
        names == {req.domain_names[i] : i \in 1..Len(req.domain_names)}
        deleted == {d \in names : d \in DomainNames /\ remote[d] # Absent}
    IN  /\ Call
        /\ heap' = [r \in DOMAIN heap |->
                      IF reply = "ok" /\ r \in {cd.np_set, cd.cp_set, cd.cp_caret_set}
                      THEN {} ELSE heap[r]]
        /\ remote' = IF reply = "ok"
                     THEN [d \in DomainNames |->
                             IF d \in deleted THEN Absent ELSE remote[d]]
                     ELSE remote
        /\ dlast' = IF reply = "ok"
                    THEN [op |-> "clear", sent |-> <<WithMetadata(req, cd.stub.metadata)>>, raised |-> FALSE,
                          res |-> [deleted_domain_names |-> deleted],
                          value |-> deleted]
                    ELSE [op |-> "clear", sent |-> <<WithMetadata(req, cd.stub.metadata)>>, raised |-> TRUE,
                          exc |-> "RpcError"]
        /\ UNCHANGED <<cd, origin>>

\* CustomDict.clear, with CustomDictionaryServiceClient.remove and the
\* server's part: the named dictionaries that exist are deleted and their
\* names confirmed.
clear(reply) ==
    LET req == RemoveRequest(<<cd.domain>>)
        names == {req.domain_names[i] : i \in 1..Len(req.domain_names)}
        deleted == {d \in names : d \in DomainNames /\ remote[d] # Absent}
    IN  /\ Call
        /\ heap' = [r \in DOMAIN heap |->
                      IF r \in {cd.np_set, cd.cp_set, cd.cp_caret_set}
                      THEN {} ELSE heap[r]]
        /\ remote' = IF reply = "ok"
                     THEN [d \in DomainNames |->
                             IF d \in deleted THEN Absent ELSE remote[d]]
                     ELSE remote
        /\ dlast' = IF reply = "ok"
                    THEN [op |-> "clear", sent |-> <<WithMetadata(req, cd.stub.metadata)>>, raised |-> FALSE,
                          res |-> [deleted_domain_names |-> deleted],
                          value |-> deleted]
                    ELSE [op |-> "clear", sent |-> <<WithMetadata(req, cd.stub.metadata)>>, raised |-> TRUE,
                          exc |-> "RpcError"]
        /\ UNCHANGED <<cd, origin>>

DictNext ==
    \/ \E fn \in FileNames : read_np_set_from_file(fn)
    \/ \E fn \in FileNames : read_cp_set_from_file(fn)
    \/ \E fn \in FileNames : read_cp_caret_set_from_file(fn)
    \/ \E fn \in FileNames : read_vv_set_from_file(fn)
    \/ \E fn \in FileNames : read_va_set_from_file(fn)
    \/ \E s \in CallerRefs : copy_np_set(s)
    \/ \E s \in CallerRefs : copy_cp_set(s)
    \/ \E s \in CallerRefs : copy_cp_caret_set(s)
    \/ \E s \in CallerRefs : copy_vv_set(s)
    \/ \E s \in CallerRefs : copy_va_set(s)
    \/ \E reply \in Replies : update(reply)
    \/ \E reply \in {"ok", "rpc_error"} : load(reply)
    \/ \E reply \in {"ok", "rpc_error"} : clear(reply)

SpecDict == Init /\ [][DictNext]_vars

-----------------------------------------------------------------------------
(* read_dic_file on its own, over every short file.                        *)

\* The longest file explored, in characters.
MaxFileLen == 4

\* The characters of a file: the comment sign, a blank, a letter, a newline.
FileChars == {"#", " ", "a", "\n"}

\* The files of up to MaxFileLen characters.
Texts == UNION {[1..n -> FileChars] : n \in 0..MaxFileLen}

\* A caller reads the file whose text is t.
read_dic_file_call(t) ==
    /\ file' = [text |-> t]
    /\ parsed' = read_dic_file(t)
    /\ UNCHANGED <<dictVars, viewVars, facadeVars, unitVars, pairVars, shareVars>>

FileNext == \E t \in Texts : read_dic_file_call(t)

SpecFile == Init /\ [][FileNext]_vars

-----------------------------------------------------------------------------
(* Analysis results (bareun.language_service_pb2) and the result views     *)
(* Tagged and Tokenized.                                                   *)

PyNone == [py |-> "None"]

\* A Python value whose type the caller can tell: a str, an int, a tuple.
\* The items of a tuple are written as the message's field values.
PyStr(s) == [py |-> "str", s |-> s]
PyInt(n) == [py |-> "int", n |-> n]
PyTuple(items) == [py |-> "tuple", items |-> items]

\* The longest response explored: its sentences, tokens and units together.
MaxNodes == 5

\* Morpheme.OutOfVocab.Name: the name of an out_of_vocab value.
OutOfVocabName(v) ==
    CASE v = 0 -> "IN_WORD_EMBEDDING"
      [] v = 1 -> "OUT_OF_VOCAB"
      [] v = 2 -> "IN_CUSTOM_DICT"
      [] v = 3 -> "IN_BUILTIN_DICT"

\* Morpheme.Tag.Name: a tag value is written here as the enum member's name.
TagName(t) == t

\* Morphemes a response may hold: one of each tag the extractors of Tagged
\* name and one of another tag; probability in ten-thousandths.
Morphemes ==
    {[text |-> [content |-> "na"], tag |-> "NP", out_of_vocab |-> 0, probability |-> 9500],
     [text |-> [content |-> "ga"], tag |-> "VV", out_of_vocab |-> 1, probability |-> 0],
     [text |-> [content |-> "."], tag |-> "SF", out_of_vocab |-> 0, probability |-> 4],
     [text |-> [content |-> "mal"], tag |-> "NNG", out_of_vocab |-> 0, probability |-> 0],
     [text |-> [content |-> "geot"], tag |-> "NNB", out_of_vocab |-> 0, probability |-> 0]}

\* Segments a response may hold. hint is a string field: the last one
\* carries a hint that no extractor of Tokenized names.
Segments ==
    {[text |-> [content |-> "na"], hint |-> "N"],
     [text |-> [content |-> "ga"], hint |-> "V"],
     [text |-> [content |-> "."], hint |-> "S"],
     [text |-> [content |-> "s"], hint |-> "X"]}

\* AnalyzeSyntaxResponse() / AnalyzeSyntaxListResponse() / TokenizeResponse():
\* the default message, which has no sentences.
EmptyResponse == [sentences |-> <<>>]

\* The responses one step longer than r: one more sentence, one more token
\* in the last sentence, or one more unit in its last token.
Extend(r, field, units) ==
    LET n == Len(r.sentences) IN
    {[sentences |-> Append(r.sentences, [tokens |-> <<>>])]}
    \cup
    (IF n = 0 THEN {}
     ELSE LET toks == r.sentences[n].tokens
              k == Len(toks)
          IN  {[sentences |-> [r.sentences EXCEPT ![n] =
                  [tokens |-> Append(toks, [x \in {field} |-> <<>>])]]]}
              \cup
              (IF k = 0 THEN {}
               ELSE {[sentences |-> [r.sentences EXCEPT ![n] =
                        [tokens |-> [toks EXCEPT ![k] =
                            [x \in {field} |-> Append(toks[k][field], u)]]]]]
                     : u \in units}))

RECURSIVE Grow(_, _, _, _)
Grow(S, n, field, units) ==
    IF n = 0 THEN S
    ELSE Grow(S \cup UNION {Extend(r, field, units) : r \in S}, n - 1, field, units)

\* The responses of AnalyzeSyntax / AnalyzeSyntaxList, and of Tokenize.
AnalyzeSyntaxResponses == Grow({EmptyResponse}, MaxNodes, "morphemes", Morphemes)
TokenizeResponses == Grow({EmptyResponse}, MaxNodes, "segments", Segments)

\* A variant of Tagged.__init__ that keeps a None result, against which
\* the replacement of None is checked.
Tagged_keep_none(phrase, res) ==
    [kind |-> "Tagged", phrase |-> phrase, r |-> res, given |-> res]

\* Tagged.__init__: a None result is replaced by AnalyzeSyntaxResponse().
\* given records the res argument.
Tagged(phrase, res) ==
    IF res = PyNone
    THEN [kind |-> "Tagged", phrase |-> "", r |-> EmptyResponse, given |-> res]
    ELSE [kind |-> "Tagged", phrase |-> phrase, r |-> res, given |-> res]

\* Tokenized.__init__: a None result is replaced by TokenizeResponse().
Tokenized(phrase, res) ==
    IF res = PyNone
    THEN [kind |-> "Tokenized", phrase |-> "", r |-> EmptyResponse, given |-> res]
    ELSE [kind |-> "Tokenized", phrase |-> phrase, r |-> res, given |-> res]

\* [... for x in xs for y in f(x)]: the concatenation of a list of lists.
RECURSIVE Flatten(_)
Flatten(ss) == IF ss = <<>> THEN <<>> ELSE Head(ss) \o Flatten(Tail(ss))

\* for s in self.r.sentences for token in s.tokens
TokensOf(self) ==
    Flatten([i \in DOMAIN self.r.sentences |-> self.r.sentences[i].tokens])

\* for s in self.r.sentences for token in s.tokens for m in token.<field>
UnitsOf(self, field) ==
    Flatten([i \in DOMAIN TokensOf(self) |-> TokensOf(self)[i][field]])

\* [m.text.content for m in ...]: a list of str.
Contents(us) == [i \in DOMAIN us |-> PyStr(us[i].text.content)]

\* f'{x:5.3f}' of a probability given in ten-thousandths.
Format53(p) ==
    LET th == (p + 5) \div 10
        frac == th % 1000
    IN  ToString(th \div 1000) \o "."
        \o (IF frac < 10 THEN "00" ELSE IF frac < 100 THEN "0" ELSE "")
        \o ToString(frac)

\* Tagged.sentences
Tagged_sentences(self) == self.r.sentences

\* A variant of Tagged._pos that writes the out_of_vocab name whatever its
\* value, against which the condition on the "#" part is checked.
Tagged__pos_always_oov(m, join, detail) ==
    IF join
    THEN IF detail
         THEN LET p == IF m.probability > 0 THEN ":" \o Format53(m.probability) ELSE ""
                  oov == "#" \o OutOfVocabName(m.out_of_vocab)
              IN  PyStr(m.text.content \o "/" \o TagName(m.tag) \o p \o oov)
         ELSE PyStr(m.text.content \o "/" \o TagName(m.tag))
    ELSE IF detail
         THEN PyTuple(<<m.text.content, TagName(m.tag),
                        OutOfVocabName(m.out_of_vocab), m.probability>>)
         ELSE PyTuple(<<m.text.content, TagName(m.tag)>>)

\* Tagged._pos
Tagged__pos(m, join, detail) ==
    IF join
    THEN IF detail
         THEN LET p == IF m.probability > 0 THEN ":" \o Format53(m.probability) ELSE ""
                  oov == IF m.out_of_vocab # 0
                         THEN "#" \o OutOfVocabName(m.out_of_vocab) ELSE ""
              IN  PyStr(m.text.content \o "/" \o TagName(m.tag) \o p \o oov)
         ELSE PyStr(m.text.content \o "/" \o TagName(m.tag))
    ELSE IF detail
         THEN PyTuple(<<m.text.content, TagName(m.tag),
                        OutOfVocabName(m.out_of_vocab), m.probability>>)
         ELSE PyTuple(<<m.text.content, TagName(m.tag)>>)

\* A variant of Tagged.pos that leaves out the tokens without morphemes
\* when it groups by token, against which the grouping is checked.
Tagged_pos_skip_empty(self, flatten, join, detail) ==
    IF flatten
    THEN [i \in DOMAIN UnitsOf(self, "morphemes") |->
            Tagged__pos(UnitsOf(self, "morphemes")[i], join, detail)]
    ELSE LET HasUnits(g) == g # <<>>
         IN  SelectSeq([t \in DOMAIN TokensOf(self) |->
                          [i \in DOMAIN TokensOf(self)[t].morphemes |->
                             Tagged__pos(TokensOf(self)[t].morphemes[i], join, detail)]],
                       HasUnits)

\* Tagged.pos
Tagged_pos(self, flatten, join, detail) ==
    IF flatten
    THEN [i \in DOMAIN UnitsOf(self, "morphemes") |->
            Tagged__pos(UnitsOf(self, "morphemes")[i], join, detail)]
    ELSE [t \in DOMAIN TokensOf(self) |->
            [i \in DOMAIN TokensOf(self)[t].morphemes |->
               Tagged__pos(TokensOf(self)[t].morphemes[i], join, detail)]]

\* Tagged.morphs
Tagged_morphs(self) == Contents(UnitsOf(self, "morphemes"))

\* A variant of the noun test that leaves out NNB, against which the set
\* of noun tags is checked.
IsNounTag_no_nnb(m) == m.tag \in {"NNP", "NNG", "NP"}

\* m.tag in {Morpheme.Tag.NNP, Morpheme.Tag.NNG, Morpheme.Tag.NP, Morpheme.Tag.NNB}
IsNounTag(m) == m.tag \in {"NNP", "NNG", "NP", "NNB"}

\* m.tag in {Morpheme.Tag.VV}
IsVerbTag(m) == m.tag \in {"VV"}

\* Tagged.nouns
Tagged_nouns(self) == Contents(SelectSeq(UnitsOf(self, "morphemes"), IsNounTag))

\* Tagged.verbs
Tagged_verbs(self) == Contents(SelectSeq(UnitsOf(self, "morphemes"), IsVerbTag))

\* Tokenized.sentences
Tokenized_sentences(self) == self.r.sentences

\* A variant of Tokenized._segment with the shapes of Tagged._pos, against
\* which the values without detail are checked.
Tokenized__segment_as_pos(m, join, detail) ==
    IF join
    THEN PyStr(m.text.content \o "/" \o m.hint)
    ELSE PyTuple(<<m.text.content, m.hint>>)

\* Tokenized._segment
Tokenized__segment(m, join, detail) ==
    IF join
    THEN IF detail
         THEN PyStr(m.text.content \o "/" \o m.hint)
         ELSE PyStr(m.text.content)
    ELSE IF detail
         THEN PyTuple(<<m.text.content, m.hint>>)
         ELSE PyStr(m.text.content)

\* A variant of Tokenized.seg that lists the segments last to first,
\* against which the order of the list is checked.
Tokenized_seg_reversed(self, flatten, join, detail) ==
    LET us == UnitsOf(self, "segments")
        ts == TokensOf(self)
    IN  IF flatten
        THEN [i \in DOMAIN us |->
                Tokenized__segment(us[Len(us) + 1 - i], join, detail)]
        ELSE [t \in DOMAIN ts |->
                [i \in DOMAIN ts[t].segments |->
                   Tokenized__segment(ts[t].segments[i], join, detail)]]

\* Tokenized.seg
Tokenized_seg(self, flatten, join, detail) ==
    IF flatten
    THEN [i \in DOMAIN UnitsOf(self, "segments") |->
            Tokenized__segment(UnitsOf(self, "segments")[i], join, detail)]
    ELSE [t \in DOMAIN TokensOf(self) |->
            [i \in DOMAIN TokensOf(self)[t].segments |->
               Tokenized__segment(TokensOf(self)[t].segments[i], join, detail)]]

\* Tokenized.segments
Tokenized_segments(self) == Contents(UnitsOf(self, "segments"))

\* A variant of the filter that lets every segment through, against which
\* the disjointness of the extractors is checked.
ByHint_any(self, hint) == Contents(UnitsOf(self, "segments"))

\* [m.text.content for ... if m.hint == hint]
ByHint(self, hint) ==
    LET Hit(m) == m.hint = hint
    IN  Contents(SelectSeq(UnitsOf(self, "segments"), Hit))

Tokenized_nouns(self) == ByHint(self, "N")
Tokenized_verbs(self) == ByHint(self, "V")
Tokenized_predicates(self) == ByHint(self, "V")
Tokenized_substantives(self) == ByHint(self, "N")
Tokenized_symbols(self) == ByHint(self, "S")
Tokenized_adverbs(self) == ByHint(self, "A")
Tokenized_prenouns(self) == ByHint(self, "M")
Tokenized_postpositions(self) == ByHint(self, "J")
Tokenized_interjections(self) == ByHint(self, "I")
Tokenized_endings(self) == ByHint(self, "E")

\* json values: what MessageToDict builds and json.dumps writes. The
\* members of an object keep their order.
JStr(s) == [j |-> "string", s |-> s]
JNum(text) == [j |-> "number", text |-> text]
JArr(items) == [j |-> "array", items |-> items]
JObj(members) == [j |-> "object", members |-> members]

\* repr of a float given in ten-thousandths, as json.dumps writes it:
\* 9500 is 0.95, 4 is 0.0004, 0 is 0.0.
FloatRepr(p) ==
    LET frac == p % 10000
        digits == (IF frac < 10 THEN "000" ELSE IF frac < 100 THEN "00"
                   ELSE IF frac < 1000 THEN "0" ELSE "") \o ToString(frac)
        short == IF frac % 1000 = 0 THEN ToString(frac \div 1000)
                 ELSE IF frac % 100 = 0
                      THEN (IF frac < 1000 THEN "0" ELSE "") \o ToString(frac \div 100)
                 ELSE IF frac % 10 = 0
                      THEN (IF frac < 100 THEN "00" ELSE IF frac < 1000 THEN "0" ELSE "")
                           \o ToString(frac \div 10)
                 ELSE digits
    IN  ToString(p \div 10000) \o "." \o short

\* MessageToDict of a Morpheme and of a Segment: lowerCamelCase keys, an
\* enum as its name, fields of default value included.
MorphemeToDict(m) ==
    JObj(<< <<"text", JObj(<< <<"content", JStr(m.text.content)>> >>)>>,
            <<"tag", JStr(TagName(m.tag))>>,
            <<"probability", JNum(FloatRepr(m.probability))>>,
            <<"outOfVocab", JStr(OutOfVocabName(m.out_of_vocab))>> >>)

SegmentToDict(m) ==
    JObj(<< <<"text", JObj(<< <<"content", JStr(m.text.content)>> >>)>>,
            <<"hint", JStr(m.hint)>> >>)

\* MessageToDict(self.r, True)
MessageToDict(r, field) ==
    LET Unit(m) == IF field = "morphemes" THEN MorphemeToDict(m) ELSE SegmentToDict(m)
        Token(t) == JObj(<< <<field, JArr([i \in DOMAIN t[field] |-> Unit(t[field][i])])>> >>)
        Sentence(x) == JObj(<< <<"tokens", JArr([i \in DOMAIN x.tokens |-> Token(x.tokens[i])])>> >>)
    IN  JObj(<< <<"sentences",
                  JArr([i \in DOMAIN r.sentences |-> Sentence(r.sentences[i])])>> >>)

\* The indentation of json.dumps(indent=2) at a depth.
RECURSIVE Indent(_)
Indent(depth) == IF depth = 0 THEN "" ELSE "  " \o Indent(depth - 1)

\* json.dumps(d, ensure_ascii=False, indent=2)
RECURSIVE dumps(_, _)
RECURSIVE DumpItems(_, _, _)
RECURSIVE DumpMembers(_, _, _)
dumps(v, depth) ==
    CASE v.j = "string" -> "\"" \o v.s \o "\""
      [] v.j = "number" -> v.text
      [] v.j = "array" ->
           IF v.items = <<>> THEN "[]"
           ELSE "[\n" \o DumpItems(v.items, 1, depth + 1) \o "\n" \o Indent(depth) \o "]"
      [] v.j = "object" ->
           IF v.members = <<>> THEN "{}"
           ELSE "{\n" \o DumpMembers(v.members, 1, depth + 1) \o "\n" \o Indent(depth) \o "}"

DumpItems(items, i, depth) ==
    Indent(depth) \o dumps(items[i], depth)
    \o (IF i = Len(items) THEN "" ELSE ",\n" \o DumpItems(items, i + 1, depth))

DumpMembers(members, i, depth) ==
    Indent(depth) \o "\"" \o members[i][1] \o "\": " \o dumps(members[i][2], depth)
    \o (IF i = Len(members) THEN "" ELSE ",\n" \o DumpMembers(members, i + 1, depth))

\* The repeated field of a view's tokens.
FieldOf(self) == IF self.kind = "Tagged" THEN "morphemes" ELSE "segments"

\* Tagged.msg / Tokenized.msg
View_msg(self) == self.r

\* Tagged.as_json / Tokenized.as_json
View_as_json(self) == MessageToDict(self.r, FieldOf(self))

\* Tagged.as_json_str / Tokenized.as_json_str
View_as_json_str(self) == PyStr(dumps(MessageToDict(self.r, FieldOf(self)), 0))

\* The caller builds a view from a result or from None.
NewTagged(res) ==
    /\ view = NoView
    /\ view' = Tagged("text", res)
    /\ vret' = NoCall
    /\ UNCHANGED <<dictVars, facadeVars, fileVars, unitVars, pairVars, shareVars>>

NewTokenized(res) ==
    /\ view = NoView
    /\ view' = Tokenized("text", res)
    /\ vret' = NoCall
    /\ UNCHANGED <<dictVars, facadeVars, fileVars, unitVars, pairVars, shareVars>>

\* A variant of the accessor call that leaves the view with the default
\* message, against which the frame of the accessors is checked.
Access_consuming(kind, name, args, value) ==
    /\ view.kind = kind
    /\ vret' = IF view.r = PyNone
               THEN [op |-> name, args |-> args, raised |-> TRUE,
                     exc |-> "AttributeError"]
               ELSE [op |-> name, args |-> args, raised |-> FALSE,
                     value |-> value]
    /\ view' = [view EXCEPT !.r = EmptyResponse]
    /\ UNCHANGED <<dictVars, facadeVars, fileVars, unitVars, pairVars, shareVars>>

\* The caller calls an accessor of the view: reading self.r.sentences fails
\* with AttributeError when self.r is None.
Access(kind, name, args, value) ==
    /\ view.kind = kind
    /\ vret' = IF view.r = PyNone
               THEN [op |-> name, args |-> args, raised |-> TRUE,
                     exc |-> "AttributeError"]
               ELSE [op |-> name, args |-> args, raised |-> FALSE,
                     value |-> value]
    /\ UNCHANGED view
    /\ UNCHANGED <<dictVars, facadeVars, fileVars, unitVars, pairVars, shareVars>>

\* Tagged.print_as_json / Tokenized.print_as_json: out gets the text and
\* the call returns None.
print_as_json_call(kind) ==
    /\ view.kind = kind
    /\ vret' = IF view.r = PyNone
               THEN [op |-> "print_as_json", args |-> <<>>, raised |-> TRUE,
                     exc |-> "AttributeError"]
               ELSE [op |-> "print_as_json", args |-> <<>>, raised |-> FALSE,
                     value |-> PyNone,
                     out |-> dumps(MessageToDict(view.r, FieldOf(view)), 0)]
    /\ UNCHANGED view
    /\ UNCHANGED <<dictVars, facadeVars, fileVars, unitVars, pairVars, shareVars>>

\* Tagged.msg / Tokenized.msg: return self.r, whatever it is.
msg_call(kind) ==
    /\ view.kind = kind
    /\ vret' = [op |-> "msg", args |-> <<>>, raised |-> FALSE,
                value |-> View_msg(view)]
    /\ UNCHANGED view
    /\ UNCHANGED <<dictVars, facadeVars, fileVars, unitVars, pairVars, shareVars>>

\* One disjunct for each accessor of Tagged and of Tokenized.
ViewNext ==
    \/ \E res \in AnalyzeSyntaxResponses \cup {PyNone} : NewTagged(res)
    \/ \E res \in TokenizeResponses \cup {PyNone} : NewTokenized(res)
    \/ msg_call("Tagged")
    \/ Access("Tagged", "as_json", <<>>, View_as_json(view))
    \/ Access("Tagged", "as_json_str", <<>>, View_as_json_str(view))
    \/ print_as_json_call("Tagged")
    \/ Access("Tagged", "sentences", <<>>, Tagged_sentences(view))
    \/ \E flatten, join, detail \in BOOLEAN :
         Access("Tagged", "pos", <<flatten, join, detail>>,
                Tagged_pos(view, flatten, join, detail))
    \/ Access("Tagged", "morphs", <<>>, Tagged_morphs(view))
    \/ Access("Tagged", "nouns", <<>>, Tagged_nouns(view))
    \/ Access("Tagged", "verbs", <<>>, Tagged_verbs(view))
    \/ msg_call("Tokenized")
    \/ Access("Tokenized", "as_json", <<>>, View_as_json(view))
    \/ Access("Tokenized", "as_json_str", <<>>, View_as_json_str(view))
    \/ print_as_json_call("Tokenized")
    \/ Access("Tokenized", "sentences", <<>>, Tokenized_sentences(view))
    \/ \E flatten, join, detail \in BOOLEAN :
         Access("Tokenized", "seg", <<flatten, join, detail>>,
                Tokenized_seg(view, flatten, join, detail))
    \/ Access("Tokenized", "segments", <<>>, Tokenized_segments(view))
    \/ Access("Tokenized", "nouns", <<>>, Tokenized_nouns(view))
    \/ Access("Tokenized", "verbs", <<>>, Tokenized_verbs(view))
    \/ Access("Tokenized", "predicates", <<>>, Tokenized_predicates(view))
    \/ Access("Tokenized", "substantives", <<>>, Tokenized_substantives(view))
    \/ Access("Tokenized", "symbols", <<>>, Tokenized_symbols(view))
    \/ Access("Tokenized", "adverbs", <<>>, Tokenized_adverbs(view))
    \/ Access("Tokenized", "prenouns", <<>>, Tokenized_prenouns(view))
    \/ Access("Tokenized", "postpositions", <<>>, Tokenized_postpositions(view))
    \/ Access("Tokenized", "interjections", <<>>, Tokenized_interjections(view))
    \/ Access("Tokenized", "endings", <<>>, Tokenized_endings(view))

SpecView == Init /\ [][ViewNext]_vars

-----------------------------------------------------------------------------
(* Tagged._pos and Tokenized._segment on their own, over every unit.       *)

\* The Morpheme messages given to _pos: every tag of the noun and verb
\* extractors and one other, the default and two other out_of_vocab values,
\* and probabilities (in ten-thousandths) zero, below 0.0005 and above.
AllMorphemes ==
    [text : {[content |-> "na"], [content |-> ""]},
     tag : {"NNP", "NNG", "NP", "NNB", "VV", "SF"},
     out_of_vocab : {0, 1, 2},
     probability : {0, 4, 9500}]

\* The Segment messages given to _segment: every hint of the extractors.
AllSegments ==
    [text : {[content |-> "na"], [content |-> ""]},
     hint : {"N", "V", "S", "A", "M", "J", "I", "E"}]

\* Tagged._pos(m, join, detail)
Tagged__pos_call(m, join, detail) ==
    /\ uarg' = [kind |-> "Morpheme", m |-> m]
    /\ uret' = [op |-> "_pos", join |-> join, detail |-> detail,
                value |-> Tagged__pos(m, join, detail)]
    /\ UNCHANGED <<dictVars, viewVars, facadeVars, fileVars, pairVars, shareVars>>

\* Tokenized._segment(m, join, detail)
Tokenized__segment_call(m, join, detail) ==
    /\ uarg' = [kind |-> "Segment", m |-> m]
    /\ uret' = [op |-> "_segment", join |-> join, detail |-> detail,
                value |-> Tokenized__segment(m, join, detail)]
    /\ UNCHANGED <<dictVars, viewVars, facadeVars, fileVars, pairVars, shareVars>>

UnitNext ==
    \/ \E m \in AllMorphemes : \E join, detail \in BOOLEAN :
          Tagged__pos_call(m, join, detail)
    \/ \E m \in AllSegments : \E join, detail \in BOOLEAN :
          Tokenized__segment_call(m, join, detail)

SpecUnit == Init /\ [][UnitNext]_vars

-----------------------------------------------------------------------------
(* The facades Tagger and Tokenizer, and BareunLanguageServiceClient.      *)


\* if x: -- a str is true when it is not empty, None is false.
Truthy(x) == x # PyNone /\ Len(x.s) > 0

\* 'api.bareun.ai'
ApiBareunAi == <<"a", "p", "i", ".", "b", "a", "r", "e", "u", "n", ".", "a", "i">>

\* str.lower(), for the capitals the hosts below use.
LowerChar(c) ==
    CASE c = "A" -> "a"
      [] c = "P" -> "p"
      [] c = "I" -> "i"
      [] OTHER -> c

lower(w) == [i \in DOMAIN w |-> LowerChar(w[i])]

\* str.startswith
startswith(w, prefix) ==
    Len(w) >= Len(prefix) /\ SubSeq(w, 1, Len(prefix)) = prefix

\* bareunpy.version
version == "1.4.1"

\* The arguments a caller may give the constructors.
ApiKeys == {PyNone, PyStr(""), PyStr("koba-KEY")}

Hosts ==
    {PyNone,
     PyStr(<<>>),
     PyStr(<<" ">> \o ApiBareunAi \o <<" ">>),
     PyStr(<<"A", "P", "I">> \o SubSeq(ApiBareunAi, 4, 13)),
     PyStr(<<"l", "o", "c", "a", "l">>)}

Ports == {PyNone, PyInt(5656)}

CustomDictLists == {<<>>, <<"law">>}

\* BareunLanguageServiceClient._create_secure_channel
create_secure_channel(host, port, ca_cert_pem) ==
    IF startswith(lower(host), ApiBareunAi)
    THEN [secure |-> TRUE, target |-> <<host, port>>,
          root_certificates |-> ca_cert_pem]
    ELSE [secure |-> FALSE, target |-> <<host, port>>]

\* BareunLanguageServiceClient.__init__
BareunLanguageServiceClient(apikey, host, port) ==
    [apikey   |-> apikey,
     metadata |-> <<[key |-> "api-key", value |-> apikey.s],
                    [key |-> "user-agent", value |-> "bareunpy/" \o version]>>,
     host     |-> host,
     port     |-> port,
     channel  |-> create_secure_channel(host, port, "CA_BUNDLE"),
     stub     |-> "LanguageServiceStub"]

\* The host and port both constructors settle on.
SelfHost(host) ==
    LET h == IF Truthy(host) THEN PyStr(strip(host.s)) ELSE host
    IN  IF h = PyStr(<<>>) \/ h = PyNone THEN ApiBareunAi ELSE h.s

SelfPort(host, port) ==
    IF port # PyNone THEN port.n
    ELSE IF startswith(lower(SelfHost(host)), ApiBareunAi) THEN 443 ELSE 5656

\* apikey == None or len(apikey) == 0
NoApikey(apikey) == apikey = PyNone \/ Len(apikey.s) = 0

\* A variant of Tagger.__init__ that makes the client before it looks at
\* the apikey, against which the order of the two is checked.
Tagger_init_client_first(apikey, host, port, custom_dicts) ==
    IF NoApikey(apikey)
    THEN [raised |-> TRUE,
          exc |-> [obj |-> 1, type |-> "ValueError",
                   message |-> "an apikey must be provided!"],
          made |-> <<"channel", "stub">>]
    ELSE [raised |-> FALSE,
          made |-> <<"channel", "stub">>,
          self |-> [kind |-> "Tagger",
                    host |-> SelfHost(host),
                    port |-> SelfPort(host, port),
                    apikey |-> apikey,
                    client |-> BareunLanguageServiceClient(
                                   apikey, SelfHost(host), SelfPort(host, port)),
                    custom_dicts |-> custom_dicts,
                    internal_custom_dicts |-> <<>>]]

\* Tagger.__init__: the outcome, the collaborators made on the way (in
\* order) and the object.
Tagger_init(apikey, host, port, custom_dicts) ==
    IF NoApikey(apikey)
    THEN [raised |-> TRUE,
          exc |-> [obj |-> 1, type |-> "ValueError",
                   message |-> "an apikey must be provided!"],
          made |-> <<>>]
    ELSE [raised |-> FALSE,
          made |-> <<"channel", "stub">>,
          self |-> [kind |-> "Tagger",
                    host |-> SelfHost(host),
                    port |-> SelfPort(host, port),
                    apikey |-> apikey,
                    client |-> BareunLanguageServiceClient(
                                   apikey, SelfHost(host), SelfPort(host, port)),
                    custom_dicts |-> custom_dicts,
                    internal_custom_dicts |-> <<>>]]

\* Tokenizer.__init__
Tokenizer_init(apikey, host, port) ==
    IF NoApikey(apikey)
    THEN [raised |-> TRUE,
          exc |-> [obj |-> 1, type |-> "ValueError",
                   message |-> "a apikey must be provided!"],
          made |-> <<>>]
    ELSE [raised |-> FALSE,
          made |-> <<"channel", "stub">>,
          self |-> [kind |-> "Tokenizer",
                    host |-> SelfHost(host),
                    port |-> SelfPort(host, port),
                    apikey |-> apikey,
                    client |-> BareunLanguageServiceClient(
                                   apikey, SelfHost(host), SelfPort(host, port))]]

\* grpc.StatusCode values a failed call may carry.
StatusCodes ==
    {"PERMISSION_DENIED", "UNAVAILABLE", "INVALID_ARGUMENT",
     "UNAUTHENTICATED", "INTERNAL", "DEADLINE_EXCEEDED"}

\* What e.details() may give: nothing, or the server's text.
DetailTexts == {"", "quota exceeded"}

\* The response a successful call may bring.
OneSentence(field, units) ==
    [sentences |-> <<[tokens |-> <<[x \in {field} |-> units]>>]>>]

NaMorpheme ==
    [text |-> [content |-> "na"], tag |-> "NP", out_of_vocab |-> 0, probability |-> 9500]

NaSegment == [text |-> [content |-> "na"], hint |-> "N"]

\* What the server end of one call does: it answers, the call fails with a
\* grpc.RpcError, or the stub raises another exception.
ReplyKinds(field, unit) ==
    {[kind |-> "ok", res |-> EmptyResponse],
     [kind |-> "ok", res |-> OneSentence(field, <<unit>>)]}
    \cup {[kind |-> "rpc_error", code |-> c, details |-> d] :
            c \in StatusCodes, d \in DetailTexts}
    \cup {[kind |-> "exception"]}

RpcError(reply) ==
    [obj |-> 1, type |-> "RpcError", code |-> reply.code, details |-> reply.details]

OtherError == [obj |-> 1, type |-> "TypeError"]

\* server_message = details if details else "..."
ServerMessage(details) ==
    IF details # "" THEN details ELSE "no further message from the server"

\* A variant of the client's handler that raises every error again as it
\* is, against which the classification by the client is checked.
Client_reraise(self, e) == e

\* A variant of the facade's handler that wraps every status, against which
\* the passing through of the other statuses is checked.
Facade_wrap_all(self, e) ==
    [obj |-> 3, type |-> "Exception", cause |-> e,
     message |-> [text |-> "unknown error",
                  server_message |-> ServerMessage(e.details)]]

\* BareunLanguageServiceClient._handle_grpc_error: the exception it raises.
Client_handle_grpc_error(self, e) ==
    CASE e.code = "PERMISSION_DENIED" ->
           [obj |-> 2, type |-> "Exception", cause |-> e,
            message |-> [text |-> "check the API KEY", apikey |-> self.apikey,
                         server_message |-> ServerMessage(e.details)]]
      [] e.code = "UNAVAILABLE" ->
           [obj |-> 2, type |-> "Exception", cause |-> e,
            message |-> [text |-> "cannot connect to the server",
                         host |-> self.host, port |-> self.port,
                         server_message |-> ServerMessage(e.details)]]
      [] e.code = "INVALID_ARGUMENT" ->
           [obj |-> 2, type |-> "Exception", cause |-> e,
            message |-> [text |-> "a bad request was sent",
                         server_message |-> ServerMessage(e.details)]]
      [] OTHER -> e

\* Tagger._handle_grpc_error / Tokenizer._handle_grpc_error: the exception
\* it raises.
Facade_handle_grpc_error(self, e) ==
    CASE e.code = "PERMISSION_DENIED" ->
           [obj |-> 3, type |-> "Exception", cause |-> e,
            message |-> [text |-> "check the API KEY", apikey |-> self.apikey,
                         server_message |-> ServerMessage(e.details)]]
      [] e.code = "UNAVAILABLE" ->
           [obj |-> 3, type |-> "Exception", cause |-> e,
            message |-> [text |-> "cannot connect to the server",
                         host |-> self.host, port |-> self.port,
                         server_message |-> ServerMessage(e.details)]]
      [] OTHER -> e

\* A variant of the client call that sends the request a second time when
\* the first attempt fails with a grpc.RpcError, against which the single
\* attempt per call is checked.
ClientCall_retry(self, req, reply) ==
    LET once == <<[req EXCEPT !.metadata = self.metadata]>> IN
    CASE reply.kind = "ok" ->
           [sent |-> once, raised |-> FALSE, value |-> reply.res]
      [] reply.kind = "rpc_error" ->
           [sent |-> once \o once, raised |-> TRUE,
            exc |-> Client_handle_grpc_error(self, RpcError(reply))]
      [] reply.kind = "exception" ->
           [sent |-> once, raised |-> TRUE, exc |-> OtherError]

\* stub.<Method>.with_call(request=req, metadata=self.metadata) inside the
\* client's try: the response, the exception _handle_grpc_error raises for
\* a grpc.RpcError, or the other exception raised again.
ClientCall(self, req, reply) ==
    LET sent == <<[req EXCEPT !.metadata = self.metadata]>> IN
    CASE reply.kind = "ok" ->
           [sent |-> sent, raised |-> FALSE, value |-> reply.res]
      [] reply.kind = "rpc_error" ->
           [sent |-> sent, raised |-> TRUE,
            exc |-> Client_handle_grpc_error(self, RpcError(reply))]
      [] reply.kind = "exception" ->
           [sent |-> sent, raised |-> TRUE, exc |-> OtherError]

\* BareunLanguageServiceClient.analyze_syntax
analyze_syntax(self, content, custom_dicts, auto_split, auto_spacing, auto_jointing, reply) ==
    ClientCall(self,
               [rpc |-> "AnalyzeSyntax",
                document |-> [content |-> content, language |-> "ko_KR"],
                encoding_type |-> "UTF32",
                auto_split_sentence |-> auto_split,
                auto_spacing |-> auto_spacing,
                auto_jointing |-> auto_jointing,
                custom_dict_names |-> custom_dicts,
                metadata |-> <<>>],
               reply)

\* BareunLanguageServiceClient.analyze_syntax_list
analyze_syntax_list(self, content, custom_dicts, auto_spacing, auto_jointing, reply) ==
    ClientCall(self,
               [rpc |-> "AnalyzeSyntaxList",
                sentences |-> content,
                language |-> "ko_KR",
                encoding_type |-> "UTF32",
                auto_spacing |-> auto_spacing,
                auto_jointing |-> auto_jointing,
                custom_dict_names |-> custom_dicts,
                metadata |-> <<>>],
               reply)

\* BareunLanguageServiceClient.tokenize
client_tokenize(self, content, auto_split, reply) ==
    ClientCall(self,
               [rpc |-> "Tokenize",
                document |-> [content |-> content, language |-> "ko_KR"],
                encoding_type |-> "UTF32",
                auto_split_sentence |-> auto_split,
                metadata |-> <<>>],
               reply)

\* A variant of the test that takes every phrase to hold sentences, against
\* which the short cut for empty text is checked.
always_sentences(phrase) == Len(phrase) < 0

\* len(phrase) == 0: print("OOPS, no sentences.") and return an empty view.
no_sentences(phrase) == Len(phrase) = 0

\* '\n'.join(phrase)
RECURSIVE join(_)
join(phrase) ==
    IF phrase = <<>> THEN ""
    ELSE IF Len(phrase) = 1 THEN phrase[1]
    ELSE phrase[1] \o "\n" \o join(Tail(phrase))

\* The texts and lists of texts a caller may pass.
Phrases == {"", "na ga."}

PhraseLists == {<<>>, <<"">>, <<"na", "ga.">>}

\* The (auto_split, auto_spacing, auto_jointing) a caller may pass: the
\* defaults of tag(), and two more in which every flag takes both values.
FlagChoices == {<<FALSE, TRUE, TRUE>>, <<TRUE, FALSE, TRUE>>, <<TRUE, TRUE, FALSE>>}

\* A variant of the facade method whose except clause absorbs the
\* grpc.RpcError, so that the method falls off its end and returns None,
\* against which the two outcomes of a call are checked.
FacadeOutcome_absorb(self, op, args, reply, o, newview) ==
    IF ~o.raised
    THEN [op |-> op, args |-> args, reply |-> reply, sent |-> o.sent,
          out |-> <<>>, raised |-> FALSE, value |-> newview]
    ELSE IF o.exc.type = "RpcError"
    THEN [op |-> op, args |-> args, reply |-> reply, sent |-> o.sent,
          out |-> <<>>, raised |-> FALSE, value |-> PyNone]
    ELSE [op |-> op, args |-> args, reply |-> reply, sent |-> o.sent,
          out |-> <<>>, raised |-> TRUE, exc |-> o.exc]

\* try: res = <call>; return View(phrase, res)
\* except grpc.RpcError as e: self._handle_grpc_error(e)
\* -- the outcome of the facade method, given the client call's outcome.
FacadeOutcome(self, op, args, reply, o, newview) ==
    IF ~o.raised
    THEN [op |-> op, args |-> args, reply |-> reply, sent |-> o.sent,
          out |-> <<>>, raised |-> FALSE, value |-> newview]
    ELSE [op |-> op, args |-> args, reply |-> reply, sent |-> o.sent,
          out |-> <<>>, raised |-> TRUE,
          exc |-> IF o.exc.type = "RpcError"
                  THEN Facade_handle_grpc_error(self, o.exc)
                  ELSE o.exc]

\* The outcome of a facade method given no sentences.
EmptyOutcome(op, args, newview) ==
    [op |-> op, args |-> args, reply |-> [kind |-> "none"], sent |-> <<>>,
     out |-> <<"OOPS, no sentences.">>, raised |-> FALSE, value |-> newview]

\* The caller constructs a Tagger; a constructor that raises leaves the
\* caller without an object.
NewTagger(apikey, host, port, custom_dicts) ==
    LET o == Tagger_init(apikey, host, port, custom_dicts) IN
    /\ facade' = IF o.raised THEN NoFacade ELSE o.self
    /\ flast' = IF o.raised
                THEN [op |-> "Tagger", args |-> <<apikey, host, port>>,
                      sent |-> <<>>, made |-> o.made, raised |-> TRUE, exc |-> o.exc]
                ELSE [op |-> "Tagger", args |-> <<apikey, host, port>>,
                      sent |-> <<>>, made |-> o.made, raised |-> FALSE]
    /\ UNCHANGED <<dictVars, viewVars, fileVars, unitVars, pairVars, shareVars>>

\* The caller constructs a Tokenizer.
NewTokenizer(apikey, host, port) ==
    LET o == Tokenizer_init(apikey, host, port) IN
    /\ facade' = IF o.raised THEN NoFacade ELSE o.self
    /\ flast' = IF o.raised
                THEN [op |-> "Tokenizer", args |-> <<apikey, host, port>>,
                      sent |-> <<>>, made |-> o.made, raised |-> TRUE, exc |-> o.exc]
                ELSE [op |-> "Tokenizer", args |-> <<apikey, host, port>>,
                      sent |-> <<>>, made |-> o.made, raised |-> FALSE]
    /\ UNCHANGED <<dictVars, viewVars, fileVars, unitVars, pairVars, shareVars>>

\* 'nlp.bareun.ai'
NlpBareunAi == <<"n", "l", "p">> \o SubSeq(ApiBareunAi, 4, 13)

\* BareunRevisionServiceClient.__init__(self, apikey, host, port)
BareunRevisionServiceClient(apikey, host, port) ==
    [apikey   |-> apikey,
     host     |-> host,
     port     |-> port,
     channel  |-> create_secure_channel(host, port, "CA_BUNDLE"),
     metadata |-> <<[key |-> "api-key", value |-> apikey.s],
                    [key |-> "user-agent", value |-> "bareun-revision-client"]>>,
     stub     |-> "RevisionServiceStub"]

\* A call BareunRevisionServiceClient(*args): __init__ takes apikey, host
\* and port, and any other number of arguments is a TypeError.
New_BareunRevisionServiceClient(args) ==
    IF Len(args) = 3
    THEN [raised |-> FALSE,
          value |-> BareunRevisionServiceClient(args[1], args[2], args[3])]
    ELSE [raised |-> TRUE, exc |-> [obj |-> 1, type |-> "TypeError"]]

\* Corrector.__init__: the outcome and the channels made on the way. The
\* channel is grpc.insecure_channel whatever the host is, and the client
\* is called with four arguments: self.channel, apikey, self.host and
\* self.port.
Corrector_init(apikey, host, port) ==
    LET h == IF Truthy(host) THEN PyStr(strip(host.s)) ELSE host
        self_host == IF h = PyStr(<<>>) \/ h = PyNone THEN NlpBareunAi ELSE h.s
        self_port == IF port # PyNone THEN port.n ELSE 5656
        channel == [secure |-> FALSE, target |-> <<self_host, self_port>>]
        c == New_BareunRevisionServiceClient(<<channel, apikey, self_host, self_port>>)
    IN  IF c.raised
        THEN [raised |-> TRUE, exc |-> c.exc, made |-> <<channel>>,
              host |-> self_host]
        ELSE [raised |-> FALSE, made |-> <<channel, c.value.channel>>,
              host |-> self_host,
              self |-> [kind |-> "Corrector", host |-> self_host,
                        port |-> self_port, channel |-> channel,
                        client |-> c.value]]

\* The caller constructs a Corrector.
NewCorrector(apikey, host, port) ==
    LET o == Corrector_init(apikey, host, port) IN
    /\ facade' = IF o.raised THEN NoFacade ELSE o.self
    /\ flast' = IF o.raised
                THEN [op |-> "Corrector", args |-> <<apikey, host, port>>,
                      sent |-> <<>>, made |-> o.made, host |-> o.host,
                      raised |-> TRUE, exc |-> o.exc]
                ELSE [op |-> "Corrector", args |-> <<apikey, host, port>>,
                      sent |-> <<>>, made |-> o.made, host |-> o.host,
                      raised |-> FALSE]
    /\ UNCHANGED <<dictVars, viewVars, fileVars, unitVars, pairVars, shareVars>>

\* Tagger.tag
tag(phrase, auto_split, auto_spacing, auto_jointing, reply) ==
    /\ facade.kind = "Tagger"
    /\ flast' =
         IF no_sentences(phrase)
         THEN EmptyOutcome("tag", <<phrase>>, Tagged("", EmptyResponse))
         ELSE LET o == analyze_syntax(facade.client, phrase, facade.custom_dicts,
                                      auto_split, auto_spacing, auto_jointing, reply)
              IN  FacadeOutcome(facade, "tag", <<phrase>>, reply, o,
                                Tagged(phrase, IF o.raised THEN PyNone ELSE o.value))
    /\ UNCHANGED facade
    /\ UNCHANGED <<dictVars, viewVars, fileVars, unitVars, pairVars, shareVars>>

\* Tagger.tags
tags(phrase, auto_split, auto_spacing, auto_jointing, reply) ==
    /\ facade.kind = "Tagger"
    /\ flast' =
         IF no_sentences(phrase)
         THEN EmptyOutcome("tags", <<phrase>>, Tagged("", EmptyResponse))
         ELSE LET p == join(phrase)
                  o == analyze_syntax(facade.client, p, facade.custom_dicts,
                                      auto_split, auto_spacing, auto_jointing, reply)
              IN  FacadeOutcome(facade, "tags", <<phrase>>, reply, o,
                                Tagged(p, IF o.raised THEN PyNone ELSE o.value))
    /\ UNCHANGED facade
    /\ UNCHANGED <<dictVars, viewVars, fileVars, unitVars, pairVars, shareVars>>

\* Tagger.taglist
taglist(phrase, auto_spacing, auto_jointing, reply) ==
    /\ facade.kind = "Tagger"
    /\ flast' =
         IF no_sentences(phrase)
         THEN EmptyOutcome("taglist", <<phrase>>, Tagged("", EmptyResponse))
         ELSE LET o == analyze_syntax_list(facade.client, phrase, facade.custom_dicts,
                                           auto_spacing, auto_jointing, reply)
              IN  FacadeOutcome(facade, "taglist", <<phrase>>, reply, o,
                                Tagged(phrase, IF o.raised THEN PyNone ELSE o.value))
    /\ UNCHANGED facade
    /\ UNCHANGED <<dictVars, viewVars, fileVars, unitVars, pairVars, shareVars>>

\* Tokenizer.tokenize
tokenize(phrase, auto_split, reply) ==
    /\ facade.kind = "Tokenizer"
    /\ flast' =
         IF no_sentences(phrase)
         THEN EmptyOutcome("tokenize", <<phrase>>, Tokenized("", EmptyResponse))
         ELSE LET o == client_tokenize(facade.client, phrase, auto_split, reply)
              IN  FacadeOutcome(facade, "tokenize", <<phrase>>, reply, o,
                                Tokenized(phrase, IF o.raised THEN PyNone ELSE o.value))
    /\ UNCHANGED facade
    /\ UNCHANGED <<dictVars, viewVars, fileVars, unitVars, pairVars, shareVars>>

\* Tokenizer.tokenize_list
tokenize_list(phrase, reply) ==
    /\ facade.kind = "Tokenizer"
    /\ flast' =
         IF no_sentences(phrase)
         THEN EmptyOutcome("tokenize_list", <<phrase>>, Tokenized("", EmptyResponse))
         ELSE LET p == join(phrase)
                  o == client_tokenize(facade.client, p, FALSE, reply)
              IN  FacadeOutcome(facade, "tokenize_list", <<phrase>>, reply, o,
                                Tokenized(p, IF o.raised THEN PyNone ELSE o.value))
    /\ UNCHANGED facade
    /\ UNCHANGED <<dictVars, viewVars, fileVars, unitVars, pairVars, shareVars>>

FacadeNext ==
    \/ \E apikey \in ApiKeys, host \in Hosts, port \in Ports, dicts \in CustomDictLists :
         NewTagger(apikey, host, port, dicts)
    \/ \E apikey \in ApiKeys, host \in Hosts, port \in Ports :
         NewTokenizer(apikey, host, port)
    \/ \E apikey \in ApiKeys, host \in Hosts, port \in Ports :
         NewCorrector(apikey, host, port)
    \/ \E phrase \in Phrases, f \in FlagChoices,
          reply \in ReplyKinds("morphemes", NaMorpheme) :
         tag(phrase, f[1], f[2], f[3], reply)
    \/ \E phrase \in PhraseLists, f \in FlagChoices,
          reply \in ReplyKinds("morphemes", NaMorpheme) :
         tags(phrase, f[1], f[2], f[3], reply)
    \/ \E phrase \in PhraseLists, f \in FlagChoices,
          reply \in ReplyKinds("morphemes", NaMorpheme) :
         taglist(phrase, f[2], f[3], reply)
    \/ \E phrase \in Phrases, a \in BOOLEAN,
          reply \in ReplyKinds("segments", NaSegment) :
         tokenize(phrase, a, reply)
    \/ \E phrase \in PhraseLists, reply \in ReplyKinds("segments", NaSegment) :
         tokenize_list(phrase, reply)

SpecFacade == Init /\ [][FacadeNext]_vars

-----------------------------------------------------------------------------
(* Two Tagger objects side by side: their custom_dicts lists (references   *)
(* into lists) and their internal_custom_dicts caches.                     *)

\* The longest custom_dicts list that is explored.
MaxNames == 2

\* The caller constructs Tagger i, with custom_dicts omitted (the default
\* argument, one list object for every call) or with the caller's list.
NewTaggerAt(i, custom_dicts) ==
    LET o == Tagger_init(PyStr("koba-KEY"), PyStr(<<"l", "o", "c", "a", "l">>),
                         PyInt(5656),
                         IF custom_dicts = "omitted" THEN "default" ELSE custom_dicts)
    IN  /\ taggers[i] = NoFacade
        /\ taggers' = [taggers EXCEPT ![i] = o.self]
        /\ plast' = [op |-> "Tagger", who |-> i, args |-> <<custom_dicts>>,
                     sent |-> <<>>, raised |-> FALSE]
        /\ UNCHANGED lists
        /\ UNCHANGED <<dictVars, viewVars, facadeVars, fileVars, unitVars, shareVars>>

\* Tagger.set_custom_dicts: the argument is a list of the caller's
\* ([ref |-> r]) or a literal ([literal |-> names], a new list object); a
\* non-empty argument is kept by reference, an empty one gives way to a
\* new [].
Tagger_set_custom_dicts(i, custom_dicts) ==
    LET byref == "ref" \in DOMAIN custom_dicts
        passed == IF byref THEN lists[custom_dicts.ref] ELSE custom_dicts.literal
        held == IF byref /\ Len(passed) > 0 THEN custom_dicts.ref ELSE OwnList[i]
    IN  /\ taggers[i] # NoFacade
        /\ taggers' = [taggers EXCEPT ![i].custom_dicts = held]
        /\ lists' = IF held # OwnList[i] THEN lists
                    ELSE [lists EXCEPT ![held] =
                            IF Len(passed) > 0 THEN passed ELSE <<>>]
        /\ plast' = [op |-> "set_custom_dicts", who |-> i, args |-> <<custom_dicts>>,
                     sent |-> <<>>, raised |-> FALSE, value |-> PyNone]
        /\ UNCHANGED <<dictVars, viewVars, facadeVars, fileVars, unitVars, shareVars>>

\* Tagger.set_domain: the decorator @DeprecationWarning binds the name to
\* DeprecationWarning(<function>), an exception object, and calling it is
\* a TypeError; the body never runs.
Tagger_set_domain(i, domain) ==
    /\ taggers[i] # NoFacade
    /\ plast' = [op |-> "set_domain", who |-> i, args |-> <<domain>>,
                 sent |-> <<>>, raised |-> TRUE,
                 exc |-> [obj |-> 1, type |-> "TypeError"]]
    /\ UNCHANGED <<taggers, lists>>
    /\ UNCHANGED <<dictVars, viewVars, facadeVars, fileVars, unitVars, shareVars>>

\* tagger.custom_dicts.append(name): the caller changes in place the list
\* the public attribute of Tagger i holds.
custom_dicts_append(i, name) ==
    /\ taggers[i] # NoFacade
    /\ Len(lists[taggers[i].custom_dicts]) < MaxNames
    /\ lists' = [lists EXCEPT ![taggers[i].custom_dicts] = Append(@, name)]
    /\ plast' = [op |-> "custom_dicts.append", who |-> i, args |-> <<name>>,
                 sent |-> <<>>, raised |-> FALSE, value |-> PyNone]
    /\ UNCHANGED taggers
    /\ UNCHANGED <<dictVars, viewVars, facadeVars, fileVars, unitVars, shareVars>>

\* Tagger.custom_dict: ValueError for "" and None; a name in the cache
\* gives the cached object; otherwise the arguments of CustomDict(...) are
\* evaluated, and reading self.channel is an AttributeError when the
\* object has no such attribute.
Tagger_custom_dict(i, name) ==
    LET self == taggers[i]
        outcome ==
          IF name = PyStr("") \/ name = PyNone
          THEN [raised |-> TRUE, cache |-> self.internal_custom_dicts,
                exc |-> [obj |-> 1, type |-> "ValueError",
                         message |-> "invalid name for custom dict"]]
          ELSE IF name.s \in DOMAIN self.internal_custom_dicts
          THEN [raised |-> FALSE, cache |-> self.internal_custom_dicts,
                value |-> self.internal_custom_dicts[name.s]]
          ELSE IF "channel" \notin DOMAIN self
          THEN [raised |-> TRUE, cache |-> self.internal_custom_dicts,
                exc |-> [obj |-> 1, type |-> "AttributeError"]]
          ELSE LET made == CustomDict(self.apikey.s, name.s, self.channel)
               IN  [raised |-> FALSE,
                    cache |-> [n \in DOMAIN self.internal_custom_dicts \cup {name.s} |->
                                 IF n = name.s THEN made
                                 ELSE self.internal_custom_dicts[n]],
                    value |-> made]
    IN  /\ self # NoFacade
        /\ taggers' = [taggers EXCEPT ![i].internal_custom_dicts = outcome.cache]
        /\ plast' = [op |-> "custom_dict", who |-> i, args |-> <<name>>,
                     sent |-> <<>>] @@ [f \in DOMAIN outcome \ {"cache"} |-> outcome[f]]
        /\ UNCHANGED lists
        /\ UNCHANGED <<dictVars, viewVars, facadeVars, fileVars, unitVars, shareVars>>

\* Tagger.tag on Tagger i: the request carries the present content of the
\* list self.custom_dicts holds.
tag_at(i, phrase, reply) ==
    LET self == taggers[i]
        o == analyze_syntax(self.client, phrase, lists[self.custom_dicts],
                            FALSE, TRUE, TRUE, reply)
    IN  /\ self # NoFacade
        /\ plast' =
             [who |-> i] @@
             (IF no_sentences(phrase)
              THEN EmptyOutcome("tag", <<phrase>>, Tagged("", EmptyResponse))
              ELSE FacadeOutcome(self, "tag", <<phrase>>, reply, o,
                                 Tagged(phrase, IF o.raised THEN PyNone ELSE o.value)))
        /\ UNCHANGED <<taggers, lists>>
        /\ UNCHANGED <<dictVars, viewVars, facadeVars, fileVars, unitVars, shareVars>>

PairNext ==
    \/ \E i \in Instances, custom_dicts \in {"omitted", "caller"} :
         NewTaggerAt(i, custom_dicts)
    \/ \E i \in Instances, custom_dicts \in {[ref |-> "caller"], [literal |-> <<>>],
                                                 [literal |-> <<"med">>]} :
         Tagger_set_custom_dicts(i, custom_dicts)
    \/ \E i \in Instances : Tagger_set_domain(i, "med")
    \/ \E i \in Instances : custom_dicts_append(i, "med")
    \/ \E i \in Instances, name \in {PyNone, PyStr(""), PyStr("law")} :
         Tagger_custom_dict(i, name)
    \/ \E i \in Instances, phrase \in Phrases,
          reply \in {r \in ReplyKinds("morphemes", NaMorpheme) :
                       r.kind = "rpc_error" => r.code = "UNAVAILABLE"} :
         tag_at(i, phrase, reply)

SpecPair == Init /\ [][PairNext]_vars

-----------------------------------------------------------------------------
(* Two CustomDict objects side by side and a set of the caller's: what     *)
(* the copy_*_set methods store, and who sees the later changes of it.     *)

\* The content of the set attribute f of CustomDict k refers to.
ValAt(k, f) == sheap[snaps[k][f]]

\* A variant of copy_*_set that stores a copy, self.<f> = set(dict_set),
\* in a set object of the CustomDict's own, against which the storing by
\* reference is checked.
CopySetAt_copying(k, f, dict_set) ==
    /\ snaps' = [snaps EXCEPT ![k][f] = <<k, f>>]
    /\ sheap' = [sheap EXCEPT ![<<k, f>>] = sheap[dict_set]]
    /\ given' = [given EXCEPT ![k][f] = dict_set]
    /\ slast' = [op |-> "copy", who |-> k, args |-> <<f, dict_set>>,
                 sent |-> <<>>, raised |-> FALSE]
    /\ UNCHANGED <<dictVars, viewVars, facadeVars, fileVars, unitVars, pairVars>>

\* copy_*_set on CustomDict k: self.<f> = dict_set, the caller's set object
\* itself.
CopySetAt(k, f, dict_set) ==
    /\ snaps' = [snaps EXCEPT ![k][f] = dict_set]
    /\ given' = [given EXCEPT ![k][f] = dict_set]
    /\ slast' = [op |-> "copy", who |-> k, args |-> <<f, dict_set>>,
                 sent |-> <<>>, raised |-> FALSE]
    /\ UNCHANGED sheap
    /\ UNCHANGED <<dictVars, viewVars, facadeVars, fileVars, unitVars, pairVars>>

\* s.add(w) / s.discard(w): the caller changes its own set in place.
caller_change(w) ==
    /\ sheap' = [sheap EXCEPT ![CallerSet] =
                   IF w \in @ THEN @ \ {w} ELSE @ \cup {w}]
    /\ slast' = [op |-> "caller", who |-> 0, args |-> <<w>>,
                 sent |-> <<>>, raised |-> FALSE]
    /\ UNCHANGED <<snaps, given>>
    /\ UNCHANGED <<dictVars, viewVars, facadeVars, fileVars, unitVars, pairVars>>

\* CustomDict.clear on CustomDict k: the three set objects are emptied in
\* place, then the removal is requested; it raises the RpcError again.
clear_at(k, reply) ==
    LET self == snaps[k]
        req == RemoveRequest(<<self.domain>>)
    IN  /\ sheap' = [r \in DOMAIN sheap |->
                       IF r \in {self.np_set, self.cp_set, self.cp_caret_set}
                       THEN {} ELSE sheap[r]]
        /\ slast' = IF reply = "ok"
                    THEN [op |-> "clear", who |-> k, args |-> <<>>,
                          sent |-> <<req>>, raised |-> FALSE]
                    ELSE [op |-> "clear", who |-> k, args |-> <<>>,
                          sent |-> <<req>>, raised |-> TRUE]
        /\ UNCHANGED <<snaps, given>>
        /\ UNCHANGED <<dictVars, viewVars, facadeVars, fileVars, unitVars, pairVars>>

\* CustomDict.update on CustomDict k: the request is built from the present
\* content of the five set objects.
update_at(k, reply) ==
    LET self == snaps[k]
        req == UpdateRequest(self.domain, ValAt(k, "np_set"), ValAt(k, "cp_set"),
                             ValAt(k, "cp_caret_set"), ValAt(k, "vv_set"),
                             ValAt(k, "va_set"))
    IN  /\ slast' = [op |-> "update", who |-> k, args |-> <<>>,
                     sent |-> <<req>>, raised |-> (reply = "rpc_error")]
        /\ UNCHANGED <<snaps, sheap, given>>
        /\ UNCHANGED <<dictVars, viewVars, facadeVars, fileVars, unitVars, pairVars>>

ShareNext ==
    \/ \E k \in Instances, f \in FieldNames : CopySetAt(k, f, CallerSet)
    \/ \E w \in {<<"a">>, <<"b">>} : caller_change(w)
    \/ \E k \in Instances, reply \in {"ok", "rpc_error"} : clear_at(k, reply)
    \/ \E k \in Instances, reply \in {"ok", "rpc_error"} : update_at(k, reply)

SpecShare == Init /\ [][ShareNext]_vars

-----------------------------------------------------------------------------
(* Properties of the facades, checked under SpecFacade.                    *)

AnalysisOps == {"tag", "tags", "taglist", "tokenize", "tokenize_list"}

ClassifiedCodes == {"PERMISSION_DENIED", "UNAVAILABLE", "INVALID_ARGUMENT"}

\* C1: Tagger.tag("") and Tokenizer.tokenize("") return an empty result view
\* (morphs() / segments() == []) and issue no remote call.
C1_EmptyTextNoRemoteCall ==
    (flast.op \in {"tag", "tokenize"} /\ flast.args[1] = "") =>
        /\ ~flast.raised
        /\ flast.sent = <<>>
        /\ IF flast.op = "tag"
           THEN flast.value.kind = "Tagged" /\ Tagged_morphs(flast.value) = <<>>
           ELSE flast.value.kind = "Tokenized" /\ Tokenized_segments(flast.value) = <<>>

C1_Witness ==
    /\ flast.op = "tokenize"
    /\ flast.args[1] = ""
    /\ ~flast.raised
    /\ facade.kind = "Tokenizer"

\* C2: constructing a Tagger or a Tokenizer with a None or empty apikey
\* raises ValueError before any channel or service client is made, so that
\* nothing is sent and the caller gets no object.
C2_NoApikeyFailsBeforeChannel ==
    (/\ flast.op \in {"Tagger", "Tokenizer"}
     /\ (flast.args[1] = PyNone \/ flast.args[1] = PyStr(""))) =>
        /\ flast.raised
        /\ flast.exc.type = "ValueError"
        /\ flast.made = <<>>
        /\ flast.sent = <<>>
        /\ facade = NoFacade

C2_Witness ==
    /\ flast.op = "Tagger"
    /\ flast.args[1] = PyStr("")
    /\ flast.raised

\* C4: a remote analysis call that fails with PERMISSION_DENIED, UNAVAILABLE
\* or INVALID_ARGUMENT reaches the caller as one Exception, made by the
\* service client and not wrapped again by the facade, whose cause is the
\* original grpc.RpcError and whose message holds the apikey, the host and
\* port, or the server's detail text respectively.
C4_ClassifiedOnce ==
    (/\ flast.op \in AnalysisOps
     /\ flast.reply.kind = "rpc_error"
     /\ flast.reply.code \in ClassifiedCodes) =>
        /\ flast.raised
        /\ flast.exc.type = "Exception"
        /\ flast.exc.obj = 2
        /\ flast.exc.cause = [obj |-> 1, type |-> "RpcError",
                              code |-> flast.reply.code,
                              details |-> flast.reply.details]
        /\ flast.reply.code = "PERMISSION_DENIED" =>
               flast.exc.message.apikey = facade.apikey
        /\ flast.reply.code = "UNAVAILABLE" =>
               /\ flast.exc.message.host = facade.host
               /\ flast.exc.message.port = facade.port
        /\ (flast.reply.code = "INVALID_ARGUMENT" /\ flast.reply.details # "") =>
               flast.exc.message.server_message = flast.reply.details

C4_Witness ==
    /\ flast.op = "taglist"
    /\ flast.reply.kind = "rpc_error"
    /\ flast.reply.code = "INVALID_ARGUMENT"
    /\ flast.reply.details # ""
    /\ flast.raised
    /\ flast.exc.type = "Exception"

\* C5: a remote analysis call that fails with any other status reaches the
\* caller as the original grpc.RpcError object, unchanged and unwrapped.
C5_OtherStatusReraisedUnchanged ==
    (/\ flast.op \in AnalysisOps
     /\ flast.reply.kind = "rpc_error"
     /\ flast.reply.code \notin ClassifiedCodes) =>
        /\ flast.raised
        /\ flast.exc = [obj |-> 1, type |-> "RpcError",
                        code |-> flast.reply.code,
                        details |-> flast.reply.details]

C5_Witness ==
    /\ flast.op = "tokenize"
    /\ flast.reply.kind = "rpc_error"
    /\ flast.reply.code = "INTERNAL"
    /\ flast.raised
    /\ flast.exc.type = "RpcError"

-----------------------------------------------------------------------------
(* Properties of the result views, checked under SpecView.                 *)

\* The accessors of Tagged and of Tokenized that return a list.
ListAccessors ==
    {"sentences", "pos", "morphs", "seg", "segments", "nouns", "verbs",
     "predicates", "substantives", "symbols", "adverbs", "prenouns",
     "postpositions", "interjections", "endings"}

\* C3: a view built from None or from a result without sentences holds the
\* empty result (None is replaced at construction), and every accessor of
\* Tagged and of Tokenized returns an empty sequence and none fails.
C3_EmptyViewAccessorsEmpty ==
    (view.kind # "none" /\ (view.given = PyNone \/ view.given.sentences = <<>>)) =>
        /\ view.r = EmptyResponse
        /\ vret.op \in ListAccessors => (~vret.raised /\ vret.value = <<>>)

C3_Witness ==
    /\ view.kind = "Tokenized"
    /\ view.given = PyNone
    /\ vret.op = "seg"
    /\ vret.args = <<FALSE, TRUE, TRUE>>
    /\ ~vret.raised

-----------------------------------------------------------------------------
(* Properties of CustomDict, checked under SpecDict.                       *)

\* C6: clear() empties all five local sets, asks the server to delete
\* exactly the dictionary of its own name, and returns the names the server
\* confirms as deleted.
C6_ClearEmptiesAllFive ==
    dlast.op = "clear" =>
        /\ \A f \in FieldNames : Val(f) = {}
        /\ Len(dlast.sent) = 1
        /\ dlast.sent[1].domain_names = <<cd.domain>>
        /\ ~dlast.sent[1].all
        /\ ~dlast.raised => dlast.value = dlast.res.deleted_domain_names

\* C7: update() sends one request that holds all five local sets under the
\* dictionary's name; it returns True exactly when the name the server
\* confirms is that name, and the stored dictionary is then the one sent.
C7_UpdateSendsAllFive ==
    dlast.op = "update" =>
        /\ Len(dlast.sent) = 1
        /\ dlast.sent[1].rpc = "UpdateCustomDictionary"
        /\ dlast.sent[1].domain_name = cd.domain
        /\ dlast.sent[1].dict.domain_name = cd.domain
        /\ \A f \in FieldNames : DOMAIN dlast.sent[1].dict[f].items = Val(f)
        /\ ~dlast.raised =>
             /\ dlast.value = (dlast.res.updated_domain_name = cd.domain)
             /\ dlast.value => remote[cd.domain] = dlast.sent[1].dict

C7_Witness ==
    /\ dlast.op = "update"
    /\ ~dlast.raised
    /\ dlast.value
    /\ \A f \in FieldNames : Val(f) # {}
    /\ Val("np_set") # Val("vv_set")

C9_UpdateLoadRoundTrip ==
    [][(/\ dlast.op = "update"
        /\ ~dlast.raised
        /\ dlast.value
        /\ nops' = nops + 1
        /\ dlast'.op = "load") =>
         /\ Val("np_set")' = Val("np_set")
         /\ Val("cp_set")' = Val("cp_set")]_vars

C9_Witness ==
    /\ dlast.op = "load"
    /\ dlast.fetched
    /\ origin["vv_set"] = "words_txt"
    /\ origin["va_set"] = "words_txt"
    /\ \A f \in FieldNames : Val(f) = read_dic_file(WordsTxt)
    /\ remote[cd.domain] # Absent
    /\ \A f \in FieldNames :
         DOMAIN remote[cd.domain][f].items = read_dic_file(WordsTxt)

\* The lines of a file, each as readline() gives it.
RECURSIVE FileLines(_)
FileLines(text) ==
    IF text = <<>> THEN {} ELSE {readline(text)} \cup FileLines(AfterLine(text))

\* C10 as stated: after any sequence of operations every one of the five
\* sets holds only non-empty strings, and nothing from a comment line or a
\* blank line of a file.
C10_AllWordsNonEmpty ==
    \A f \in FieldNames : \A w \in Val(f) :
        /\ Len(w) > 0
        /\ origin[f] \in DOMAIN FileSystem =>
             \E line \in FileLines(FileSystem[origin[f]]) :
                 line[1] # "#" /\ strip(line) = w

\* C10 as amended: a set that read_*_set_from_file assigned holds only
\* non-empty strings, each the stripped text of a line of that file that is
\* not blank and does not begin with '#'.
C10_FileSetsWordsNonEmpty ==
    \A f \in FieldNames :
        origin[f] \in DOMAIN FileSystem =>
            \A w \in Val(f) :
                /\ Len(w) > 0
                /\ \E line \in FileLines(FileSystem[origin[f]]) :
                       line[1] # "#" /\ strip(line) # <<>> /\ strip(line) = w

C10_Witness ==
    /\ origin["cp_caret_set"] = "words_txt"
    /\ Val("cp_caret_set") # {}
    /\ origin["np_set"] = "caller"
    /\ <<>> \in Val("np_set")

-----------------------------------------------------------------------------
(* Properties of read_dic_file, checked under SpecFile.                    *)

\* C11: read_dic_file returns exactly the stripped contents of the lines
\* that are neither blank nor begin with '#', and for every file no
\* returned word is empty and no returned word begins with '#'.
C11_NoWordBeginsWithHash ==
    file # NoFile =>
        /\ parsed = {strip(line) : line \in
                       {l \in FileLines(file.text) : l[1] # "#" /\ strip(l) # <<>>}}
        /\ \A w \in parsed : w # <<>> /\ w[1] # "#"

-----------------------------------------------------------------------------
(* Properties of _pos and _segment, checked under SpecUnit.                *)

\* C12: Tagged._pos gives (text, tag) for (join=false, detail=false), the
\* tuple (text, tag, oov name, probability) for (false, true), "text/tag"
\* for (true, false), and for (true, true) "text/tag" followed by
\* ":probability" exactly when probability > 0 and then by "#<oov name>"
\* exactly when out_of_vocab is not 0.
C12_PosFourModes ==
    uret.op = "_pos" =>
        LET m == uarg.m
            base == m.text.content \o "/" \o TagName(m.tag)
            p == ":" \o Format53(m.probability)
            oov == "#" \o OutOfVocabName(m.out_of_vocab)
        IN  /\ (~uret.join /\ ~uret.detail) =>
                 uret.value = PyTuple(<<m.text.content, TagName(m.tag)>>)
            /\ (~uret.join /\ uret.detail) =>
                 uret.value = PyTuple(<<m.text.content, TagName(m.tag),
                                        OutOfVocabName(m.out_of_vocab),
                                        m.probability>>)
            /\ (uret.join /\ ~uret.detail) => uret.value = PyStr(base)
            /\ (uret.join /\ uret.detail) =>
                 uret.value =
                   PyStr(CASE m.probability > 0 /\ m.out_of_vocab # 0 -> base \o p \o oov
                           [] m.probability > 0 /\ m.out_of_vocab = 0 -> base \o p
                           [] m.probability <= 0 /\ m.out_of_vocab # 0 -> base \o oov
                           [] OTHER -> base)

C12_Witness ==
    /\ uret.op = "_pos"
    /\ uret.join /\ uret.detail
    /\ uarg.m.probability > 0
    /\ uarg.m.out_of_vocab # 0
    /\ uret.value = PyStr("na/VV:0.950#OUT_OF_VOCAB")

\* The category of a unit: a Morpheme's tag name, a Segment's hint.
Category(u) == IF u.kind = "Morpheme" THEN TagName(u.m.tag) ELSE u.m.hint

-----------------------------------------------------------------------------
(* Properties of the accessors of the result views, checked under SpecView. *)

\* The units of a list of tokens, and of a list of sentences, in the order
\* of the message.
RECURSIVE UnitsOfTokens(_, _)
UnitsOfTokens(tokens, field) ==
    IF tokens = <<>> THEN <<>>
    ELSE Head(tokens)[field] \o UnitsOfTokens(Tail(tokens), field)

RECURSIVE UnitsInOrder(_, _)
UnitsInOrder(sentences, field) ==
    IF sentences = <<>> THEN <<>>
    ELSE UnitsOfTokens(Head(sentences).tokens, field)
         \o UnitsInOrder(Tail(sentences), field)

\* The tokens of a list of sentences, in the order of the message.
RECURSIVE TokensInOrder(_)
TokensInOrder(sentences) ==
    IF sentences = <<>> THEN <<>>
    ELSE Head(sentences).tokens \o TokensInOrder(Tail(sentences))

C15_FlattenKeepsOrder ==
    (vret.op \in {"pos", "seg"} /\ ~vret.raised) =>
        LET field == IF vret.op = "pos" THEN "morphemes" ELSE "segments"
            us == UnitsInOrder(view.r.sentences, field)
            ts == TokensInOrder(view.r.sentences)
            One(m) == IF vret.op = "pos"
                      THEN Tagged__pos(m, vret.args[2], vret.args[3])
                      ELSE Tokenized__segment(m, vret.args[2], vret.args[3])
            flat == IF vret.op = "pos"
                    THEN Tagged_pos(view, TRUE, vret.args[2], vret.args[3])
                    ELSE Tokenized_seg(view, TRUE, vret.args[2], vret.args[3])
        IN  /\ vret.args[1] =>
                 /\ Len(vret.value) = Len(us)
                 /\ \A i \in DOMAIN us : vret.value[i] = One(us[i])
            /\ ~vret.args[1] =>
                 /\ Len(vret.value) = Len(ts)
                 /\ \A t \in DOMAIN ts :
                        /\ Len(vret.value[t]) = Len(ts[t][field])
                        /\ \A i \in DOMAIN ts[t][field] :
                               vret.value[t][i] = One(ts[t][field][i])
                 /\ Flatten(vret.value) = flat

C15_Witness ==
    /\ vret.op = "pos"
    /\ ~vret.raised
    /\ ~vret.args[1]
    /\ Len(vret.value) = 2
    /\ vret.value[1] = <<>>
    /\ Len(vret.value[2]) = 2
    /\ vret.value[2][1] = vret.value[2][2]

\* The hints of the eight single-category extractors of Tokenized.
ExtractorHints == {"N", "V", "A", "S", "M", "J", "I", "E"}

\* len(nouns()) + len(predicates()) + ... + len(endings())
ExtractedCount(self) ==
    Len(Tokenized_nouns(self)) + Len(Tokenized_predicates(self))
    + Len(Tokenized_adverbs(self)) + Len(Tokenized_symbols(self))
    + Len(Tokenized_prenouns(self)) + Len(Tokenized_postpositions(self))
    + Len(Tokenized_interjections(self)) + Len(Tokenized_endings(self))

\* The positions of the segments whose hint is in hints.
SegmentsHinted(self, hints) ==
    LET us == UnitsInOrder(self.r.sentences, "segments")
    IN  {i \in DOMAIN us : us[i].hint \in hints}

RECURSIVE KeepAt(_, _, _)
KeepAt(seq, keep, i) ==
    IF i > Len(seq) THEN <<>>
    ELSE (IF i \in keep THEN <<seq[i]>> ELSE <<>>) \o KeepAt(seq, keep, i + 1)

\* The positions of the morphemes whose tag is in tags.
MorphemesTagged(self, tagset) ==
    LET us == UnitsInOrder(self.r.sentences, "morphemes")
    IN  {i \in DOMAIN us : us[i].tag \in tagset}

C18_AccessorsDoNotMutate ==
    [][view # NoView =>
         /\ view' = view
         /\ (vret # NoCall /\ vret'.op = vret.op /\ vret'.args = vret.args) =>
              vret' = vret]_vars

C18_Witness ==
    /\ view.kind = "Tokenized"
    /\ vret.op = "as_json_str"
    /\ ~vret.raised
    /\ vret.value =
         PyStr("{\n  \"sentences\": [\n    {\n      \"tokens\": [\n        {\n"
               \o "          \"segments\": [\n            {\n"
               \o "              \"text\": {\n                \"content\": \"na\"\n"
               \o "              },\n              \"hint\": \"N\"\n"
               \o "            }\n          ]\n        }\n      ]\n    }\n  ]\n}")

-----------------------------------------------------------------------------
(* Properties of the requests and of the channels.                         *)

\* The two entries: the configured API key, and a user-agent that holds the
\* version of the package.
KeyAndVersionedAgent(metadata, apikey) ==
    /\ Len(metadata) = 2
    /\ \E i \in DOMAIN metadata :
         metadata[i].key = "api-key" /\ metadata[i].value = apikey
    /\ \E i \in DOMAIN metadata :
         /\ metadata[i].key = "user-agent"
         /\ metadata[i].value = "bareunpy/" \o version

\* C19: every remote call -- of the analysis and tokenization client and of
\* the dictionary client alike -- carries two metadata entries, the API key
\* and a client identifier that holds the package's version.
C19_EveryCallCarriesKeyAndAgent ==
    /\ dlast.op # "none" =>
         \A i \in DOMAIN dlast.sent :
             KeyAndVersionedAgent(dlast.sent[i].metadata, cd.stub.apikey)
    /\ flast.op \in AnalysisOps =>
         \A i \in DOMAIN flast.sent :
             KeyAndVersionedAgent(flast.sent[i].metadata, facade.apikey.s)

\* host.lower().startswith('api.bareun.ai')
IsProductionHost(host) == startswith(lower(host), ApiBareunAi)

-----------------------------------------------------------------------------
(* Properties of two Tagger objects side by side, checked under SpecPair.  *)

\* The names Tagger i sends with its next request.
NamesOf(i) == lists[taggers[i].custom_dicts]

\* C21: two Tagger objects share no mutable state: an operation on one of
\* them -- a change of its configured dictionary names or of its cache --
\* leaves the names the other one sends, and the other one's cache, as
\* they were (a list the caller itself gave to both is the caller's to
\* share, and is left aside).
C21_InstancesShareNothing ==
    [][\A i, j \in Instances :
          (/\ i # j
           /\ plast'.who = i
           /\ taggers[j] # NoFacade
           /\ taggers[j].custom_dicts # "caller")
              => /\ lists'[taggers'[j].custom_dicts] = NamesOf(j)
                 /\ taggers'[j] = taggers[j]]_vars

\* C23: custom_dict(name) with a non-empty name returns a snapshot that is
\* in the cache under that name from then on -- made on the first request,
\* the same object on every later one, never dropped -- and an empty or
\* None name is an error that adds no entry.
C23_CustomDictMemoized ==
    /\ [](plast.op = "custom_dict" =>
            LET cache == taggers[plast.who].internal_custom_dicts
                name == plast.args[1]
            IN  IF name = PyNone \/ name = PyStr("")
                THEN plast.raised /\ "" \notin DOMAIN cache
                ELSE /\ ~plast.raised
                     /\ name.s \in DOMAIN cache
                     /\ plast.value = cache[name.s])
    /\ [][\A i \in Instances :
            taggers[i] # NoFacade =>
              \A n \in DOMAIN taggers[i].internal_custom_dicts :
                  /\ n \in DOMAIN taggers'[i].internal_custom_dicts
                  /\ taggers'[i].internal_custom_dicts[n] =
                       taggers[i].internal_custom_dicts[n]]_vars

-----------------------------------------------------------------------------
(* Further properties of the facades, checked under SpecFacade.            *)

\* C22: a list operation given no text -- an empty list, or for tags and
\* tokenize_list a list whose newline-joined text is empty -- sends no
\* request and returns an empty result view.
C22_NoCallForEmptyText ==
    (/\ flast.op \in {"tags", "taglist", "tokenize_list"}
     /\ \/ flast.args[1] = <<>>
        \/ flast.op \in {"tags", "tokenize_list"} /\ join(flast.args[1]) = "")
        => /\ flast.sent = <<>>
           /\ ~flast.raised
           /\ flast.value.r = EmptyResponse

\* C24: constructing a Corrector with a non-empty API key succeeds and
\* leaves the caller with a Corrector, whose client is the one the calls
\* of correct_error and correct_error_list go through.
C24_CorrectorConstructs ==
    (flast.op = "Corrector" /\ ~NoApikey(flast.args[1]))
        => /\ ~flast.raised
           /\ facade.kind = "Corrector"

\* C25: a call of tag, tags, taglist, tokenize or tokenize_list with
\* non-empty input sends exactly one request, whether it succeeds or fails:
\* tag and tokenize send the text, tags and tokenize_list the newline-joined
\* elements as one text (tokenize_list with auto-split off), taglist the list
\* itself to the batch operation, which has no auto-split; and a tagging
\* request carries the dictionary names configured on the facade.
C25_OneRequestPerCall ==
    (flast.op \in AnalysisOps /\ ~no_sentences(flast.args[1])) =>
        /\ Len(flast.sent) = 1
        /\ LET req == flast.sent[1] IN
           CASE flast.op = "tag" ->
                  /\ req.rpc = "AnalyzeSyntax"
                  /\ req.document.content = flast.args[1]
                  /\ req.custom_dict_names = facade.custom_dicts
             [] flast.op = "tags" ->
                  /\ req.rpc = "AnalyzeSyntax"
                  /\ req.document.content = join(flast.args[1])
                  /\ req.custom_dict_names = facade.custom_dicts
             [] flast.op = "taglist" ->
                  /\ req.rpc = "AnalyzeSyntaxList"
                  /\ req.sentences = flast.args[1]
                  /\ "auto_split_sentence" \notin DOMAIN req
                  /\ req.custom_dict_names = facade.custom_dicts
             [] flast.op = "tokenize" ->
                  /\ req.rpc = "Tokenize"
                  /\ req.document.content = flast.args[1]
             [] flast.op = "tokenize_list" ->
                  /\ req.rpc = "Tokenize"
                  /\ req.document.content = join(flast.args[1])
                  /\ req.auto_split_sentence = FALSE

\* tags has failed on two elements with a dictionary configured, after its
\* one request.
C25_Witness ==
    /\ flast.op = "tags"
    /\ flast.args[1] = <<"na", "ga.">>
    /\ flast.raised
    /\ flast.reply.kind = "rpc_error"
    /\ facade.custom_dicts = <<"law">>
    /\ Len(flast.sent) = 1
    /\ flast.sent[1].document.content = "na\nga."
    /\ flast.sent[1].custom_dict_names = <<"law">>

\* C27: a call of tag, tags, taglist, tokenize or tokenize_list ends in one
\* of two ways: it returns a view object, never None, or it raises; a call
\* whose request failed always raises.
C27_ViewOrRaise ==
    flast.op \in AnalysisOps =>
        /\ IF flast.raised
           THEN "exc" \in DOMAIN flast /\ "value" \notin DOMAIN flast
           ELSE /\ flast.value # PyNone
                /\ flast.value.kind = (IF flast.op \in {"tag", "tags", "taglist"}
                                       THEN "Tagged" ELSE "Tokenized")
        /\ flast.reply.kind \in {"rpc_error", "exception"} => flast.raised

\* tokenize has failed with a status neither handler classifies, and the
\* failure has reached the caller.
C27_Witness ==
    /\ flast.op = "tokenize"
    /\ flast.reply.kind = "rpc_error"
    /\ flast.reply.code = "INTERNAL"
    /\ flast.raised
    /\ flast.exc.type = "RpcError"

-----------------------------------------------------------------------------
(* Further properties of CustomDict, checked under SpecDict.               *)

\* C26: load() never raises: when the fetch fails the call returns
\* normally, with no trace of the failure, and the five local sets -- the
\* objects the attributes hold and their contents -- are as they were.
C26_LoadSwallowsFailure ==
    /\ [](dlast.op = "load" => ~dlast.raised /\ "exc" \notin DOMAIN dlast)
    /\ [][(nops' = nops + 1 /\ dlast'.op = "load" /\ ~dlast'.fetched) =>
            /\ cd' = cd
            /\ \A f \in FieldNames : Val(f)' = Val(f)]_vars

\* A load whose fetch failed has returned, on a snapshot whose sets hold
\* words.
C26_Witness ==
    /\ dlast.op = "load"
    /\ ~dlast.fetched
    /\ Len(dlast.sent) = 1
    /\ Val("np_set") # {}
    /\ Val("va_set") # {}

\* C28: clear() empties the proper-noun, compound-noun and split-point sets
\* before it calls the server and does not put them back: when the removal
\* fails the caller gets the RpcError as it is, the three sets are empty,
\* and the remote store is as it was.
C28_ClearDoesNotRollBack ==
    /\ [](dlast.op = "clear" /\ dlast.raised =>
            /\ dlast.exc = "RpcError"
            /\ Len(dlast.sent) = 1
            /\ Val("np_set") = {}
            /\ Val("cp_set") = {}
            /\ Val("cp_caret_set") = {})
    /\ [][(nops' = nops + 1 /\ dlast'.op = "clear" /\ dlast'.raised) =>
            remote' = remote]_vars

\* A clear has failed on a snapshot that was pushed with words in its
\* proper-noun set: the dictionary is still on the server, with the words.
C28_Witness ==
    /\ dlast.op = "clear"
    /\ dlast.raised
    /\ Val("np_set") = {}
    /\ remote[cd.domain] # Absent
    /\ DOMAIN remote[cd.domain].np_set.items # {}

-----------------------------------------------------------------------------
(* Properties of two CustomDict objects side by side, checked under        *)
(* SpecShare.                                                              *)

\* The attributes whose set objects clear() empties.
ClearedFields == {"np_set", "cp_set", "cp_caret_set"}

\* C29: copy_np_set, copy_cp_set and copy_cp_caret_set keep the caller's
\* set itself: a clear() on a CustomDict that was given the set empties
\* the caller's set, and with it the attribute of any other CustomDict
\* that was given the same set; and update() sends, for an attribute that
\* was given the set, what the set holds when update() is called.
C29_CopyStoresReference ==
    /\ [](slast.op = "update" =>
            \A f \in FieldNames :
                given[slast.who][f] = CallerSet =>
                    DOMAIN slast.sent[1].dict[f].items = sheap[CallerSet])
    /\ [][(/\ slast'.op = "clear"
           /\ \E f \in ClearedFields : given[slast'.who][f] = CallerSet) =>
            /\ sheap'[CallerSet] = {}
            /\ \A j \in Instances, g \in ClearedFields :
                  given[j][g] = CallerSet => ValAt(j, g)' = {}]_vars

\* The second CustomDict sends, for its compound-noun set, the word the
\* caller has put into the set that both were given, after the first one's
\* clear() had emptied it.
C29_Witness ==
    /\ slast.op = "update"
    /\ slast.who = 2
    /\ given[1]["np_set"] = CallerSet
    /\ given[2]["cp_set"] = CallerSet
    /\ given[2]["np_set"] = NoSet
    /\ sheap[CallerSet] = {<<"b">>}
    /\ DOMAIN slast.sent[1].dict.cp_set.items = {<<"b">>}
    /\ DOMAIN slast.sent[1].dict.np_set.items = {}

====
